---- MODULE Spec2Model ----
(***************************************************************************)
(* Model of the agent server's OTP-gated session state machine:            *)
(*   agent_server/bank_tool.py  (token cache, pending-OTP registry,        *)
(*                               gateway client, sanitizers)               *)
(*   agent_server/service.py    (handle_ask orchestration, PENDING_ACTIONS)*)
(*                                                                         *)
(* Python values: None is the string NONE; a dict is a function whose      *)
(* DOMAIN is its key set; text the code inspects character by character    *)
(* (the prompt) is a sequence of one-character strings.  The gateway, the  *)
(* planner and the LLM are external: every response of theirs is an input  *)
(* chosen with \E in the action that makes the call and logged in `last`.  *)
(***************************************************************************)
EXTENDS Integers, Sequences, FiniteSets, TLC

VARIABLES
    now,              \* time.time(), in whole seconds
    TOKEN_STORE,      \* bank_tool.TOKEN_STORE : key -> [token, expires]
    PENDING_OTP,      \* bank_tool.PENDING_OTP : key -> [action, account_id, created]
    PENDING_ACTIONS,  \* service.PENDING_ACTIONS : user_id -> [phone, bank_name, action, account_id]
    chat_history,     \* memory_manager: user_id -> sequence of <<role, content>>
    last,             \* observation of the last call: request, collaborator calls, outcome
    thr               \* per-thread position inside a bank_tool function (concurrent runs)

vars == <<now, TOKEN_STORE, PENDING_OTP, PENDING_ACTIONS, chat_history, last, thr>>

----------------------------------------------------------------------------
(* Bounds of the model *)

MaxTime == 2
MaxHistory == 2

----------------------------------------------------------------------------
(* Python helpers *)

NONE == "<None>"

Truthy(x) == x # NONE /\ x # ""

\* str(x) as an f-string formats it
PyStr(x) == IF x = NONE THEN "None" ELSE x

\* x or y
Or(x, y) == IF Truthy(x) THEN x ELSE y

EmptyDict == << >>

Has(d, k) == k \in DOMAIN d

DictSet(d, k, v) == [x \in (DOMAIN d) \cup {k} |-> IF x = k THEN v ELSE d[x]]

DictDel(d, k) == [x \in (DOMAIN d) \ {k} |-> d[x]]

\* d.pop(k, None)
DictPop(d, k) == IF Has(d, k) THEN DictDel(d, k) ELSE d

----------------------------------------------------------------------------
(* bank_tool.py: keys, token cache *)

\* An account id is a sequence of characters; None and '' are both the empty
\* sequence (the code only ever tests an account id for truthiness).
NoAcct == << >>

RECURSIVE Join(_)
Join(chars) == IF chars = << >> THEN "" ELSE Head(chars) \o Join(Tail(chars))

\* f"{bank}:{phone}:{account_id or ''}"
_key(bank, phone, account_id) ==
    PyStr(bank) \o ":" \o PyStr(phone) \o ":" \o Join(account_id)

\* The world a bank_tool function runs in: the two registries and the log of
\* the calls made to collaborators so far in this request.
World(ts, po, calls) == [ts |-> ts, po |-> po, calls |-> calls]

Log(w, call) == [w EXCEPT !.calls = Append(@, call)]

\* get_cached_token: returns [w, token]; token is NONE when absent or expired.
\* The lookup and what it found are noted in the log.
\* Faulty variant: a lookup that still serves a token at its expiry instant
\* (C8 tells it apart)
get_cached_token_ExpiryInclusive(w, t, phone, bank_name, account_id) ==
    LET key == _key(bank_name, phone, account_id) IN
    IF Has(w.ts, key) /\ w.ts[key].expires >= t
    THEN [w |-> Log(w, [fn |-> "get_cached_token", key |-> key, found |-> "valid"]),
          token |-> w.ts[key].token]
    ELSE IF Has(w.ts, key)
         THEN [w |-> [Log(w, [fn |-> "get_cached_token", key |-> key, found |-> "expired"])
                        EXCEPT !.ts = DictDel(@, key)],
               token |-> NONE]
         ELSE [w |-> Log(w, [fn |-> "get_cached_token", key |-> key, found |-> "absent"]),
               token |-> NONE]

\* Faulty variant: a lookup that never finds a token (C4 tells it apart)
get_cached_token_AlwaysMiss(w, t, phone, bank_name, account_id) ==
    LET key == _key(bank_name, phone, account_id) IN
    [w |-> Log(w, [fn |-> "get_cached_token", key |-> key, found |-> "absent"]),
     token |-> NONE]

\* Faulty variant: a lookup that ignores the expiry (C10 tells it apart)
get_cached_token_IgnoreExpiry(w, t, phone, bank_name, account_id) ==
    LET key == _key(bank_name, phone, account_id) IN
    IF Has(w.ts, key)
    THEN [w |-> Log(w, [fn |-> "get_cached_token", key |-> key, found |-> "valid"]),
          token |-> w.ts[key].token]
    ELSE [w |-> Log(w, [fn |-> "get_cached_token", key |-> key, found |-> "absent"]),
          token |-> NONE]

get_cached_token(w, t, phone, bank_name, account_id) ==
    LET key == _key(bank_name, phone, account_id)
        Note(found) == Log(w, [fn |-> "get_cached_token", key |-> key, found |-> found])
    IN  IF Has(w.ts, key) /\ w.ts[key].expires > t
        THEN [w |-> Note("valid"), token |-> w.ts[key].token]
        ELSE IF Has(w.ts, key)
             THEN [w |-> [Note("expired") EXCEPT !.ts = DictDel(@, key)], token |-> NONE]
             ELSE [w |-> Note("absent"), token |-> NONE]

save_token(w, t, phone, bank_name, account_id, token, ttl_seconds) ==
    LET key == _key(bank_name, phone, account_id) IN
    [w EXCEPT !.ts = DictSet(@, key, [token |-> token, expires |-> t + ttl_seconds])]


----------------------------------------------------------------------------
(* bank_tool.py: sanitize helpers *)

IsSpace(c) == c \in {" ", "\t", "\n"}

RECURSIVE LStrip(_)
LStrip(s) == IF s # << >> /\ IsSpace(Head(s)) THEN LStrip(Tail(s)) ELSE s

RECURSIVE RStrip(_)
RStrip(s) == IF s # << >> /\ IsSpace(s[Len(s)]) THEN RStrip(SubSeq(s, 1, Len(s) - 1)) ELSE s

\* str.strip()
Strip(s) == RStrip(LStrip(s))

Ellipsis == <<".", ".", ".">>

\* Faulty variant: only identifiers of at most 4 characters get the fixed
\* mask (C23 tells it apart)
mask_account_ShortShown(acc) ==
    LET a == Strip(acc) IN
    IF Len(a) <= 4 THEN <<"*", "*", "*", "*">>
    ELSE SubSeq(a, 1, 4) \o Ellipsis \o SubSeq(a, Len(a) - 3, Len(a))

mask_account(acc) ==
    LET a == Strip(acc) IN
    IF Len(a) <= 8 THEN <<"*", "*", "*", "*">>
    ELSE SubSeq(a, 1, 4) \o Ellipsis \o SubSeq(a, Len(a) - 3, Len(a))

\* txs[:n]
Take(s, n) == SubSeq(s, 1, IF Len(s) < n THEN Len(s) ELSE n)

\* t.get(f) or t.get(g) or ..., for text fields: the first of the fields that
\* is present and not empty, as a sequence of at most one text
RECURSIVE FirstText(_, _)
FirstText(t, fields) ==
    IF fields = << >> THEN << >>
    ELSE IF Head(fields) \in DOMAIN t /\ t[Head(fields)] # << >>
    THEN <<t[Head(fields)]>>
    ELSE FirstText(t, Tail(fields))

MaskedMerchant == <<"[", "m", "a", "s", "k", "e", "d", "]">>

\* One pass of the loop, for a transaction that carries date, amount and
\* type under these names
SummarizeOne(t) ==
    LET found == FirstText(t, <<"merchant", "merchant_name", "mo_ta">>)
        merchant == IF found # << >> THEN found[1] ELSE MaskedMerchant
    IN  [date |-> t.date, amount |-> t.amount,
         merchant |-> IF Len(merchant) <= 30 THEN merchant
                      ELSE SubSeq(merchant, 1, 27) \o Ellipsis,
         type |-> t.type]

\* Faulty variant: the newest entries are the last n of the list (C24 tells
\* it apart)
summarize_transactions_Newest(txs, n) ==
    LET head == SubSeq(txs, IF Len(txs) > n THEN Len(txs) - n + 1 ELSE 1, Len(txs))
    IN  [i \in 1..Len(head) |-> SummarizeOne(head[i])]

summarize_transactions(txs, n) ==
    LET head == Take(txs, n) IN [i \in 1..Len(head) |-> SummarizeOne(head[i])]

sanitize_bank_response(raw) ==
    [account_label |-> mask_account(raw.account_number),
     balance |-> raw.balance,
     recent_transactions |-> summarize_transactions(raw.transactions, 5),
     last_update |-> raw.last_update]


----------------------------------------------------------------------------
(* bank_tool.py: gateway client.  A function that can raise returns         *)
(* [w, exc, ret]: exc is NONE on a normal return, else the exception class. *)

Return(w, ret) == [w |-> w, exc |-> NONE, ret |-> ret]

Raise(w, exc) == [w |-> w, exc |-> exc, ret |-> NONE]

\* Responses of POST /bank/{bank}/balance: a status, or the request failing.
OtpResponses == {"200", "400", "net_error"}

\* Faulty variant: an open that keeps the challenge already pending for the key
\* (C9 tells it apart)
request_otp_for_action_KeepFirst(w, t, phone, bank_name, action, account_id, resp) ==
    IF account_id = NoAcct THEN Raise(w, "ValueError")
    ELSE LET w1 == Log(w, [fn |-> "request_otp", bank |-> bank_name, phone |-> phone,
                           account_id |-> account_id, action |-> action, resp |-> resp])
             key == _key(bank_name, phone, account_id)
         IN  IF resp = "net_error" THEN Raise(w1, "RequestException")
             ELSE IF resp = "200"
                  THEN Return([w1 EXCEPT !.po =
                                  IF Has(@, key) THEN @
                                  ELSE DictSet(@, key, [action |-> action,
                                                        account_id |-> account_id,
                                                        created |-> t])],
                              "json")
                  ELSE Raise(w1, "RuntimeError")

\* Faulty variant: a challenge is opened whether or not an account id was
\* given (C20 tells it apart)
request_otp_for_action_NoAccountCheck(w, t, phone, bank_name, action, account_id, resp) ==
    LET w1 == Log(w, [fn |-> "request_otp", bank |-> bank_name, phone |-> phone,
                      account_id |-> account_id, action |-> action, resp |-> resp])
    IN  IF resp = "net_error" THEN Raise(w1, "RequestException")
        ELSE IF resp = "200"
             THEN Return([w1 EXCEPT !.po = DictSet(@, _key(bank_name, phone, account_id),
                              [action |-> action, account_id |-> account_id, created |-> t])],
                         "json")
             ELSE Raise(w1, "RuntimeError")

\* Faulty variant: the challenge is recorded before the status is looked at
\* (C15 tells it apart)
request_otp_for_action_RecordFirst(w, t, phone, bank_name, action, account_id, resp) ==
    IF account_id = NoAcct THEN Raise(w, "ValueError")
    ELSE LET w1 == Log(w, [fn |-> "request_otp", bank |-> bank_name, phone |-> phone,
                           account_id |-> account_id, action |-> action, resp |-> resp])
             w2 == [w1 EXCEPT !.po = DictSet(@, _key(bank_name, phone, account_id),
                                   [action |-> action, account_id |-> account_id, created |-> t])]
         IN  IF resp = "net_error" THEN Raise(w1, "RequestException")
             ELSE IF resp = "200" THEN Return(w2, "json")
                  ELSE Raise(w2, "RuntimeError")

request_otp_for_action(w, t, phone, bank_name, action, account_id, resp) ==
    IF account_id = NoAcct THEN Raise(w, "ValueError")
    ELSE LET w1 == Log(w, [fn |-> "request_otp", bank |-> bank_name, phone |-> phone,
                           account_id |-> account_id, action |-> action, resp |-> resp])
         IN  IF resp = "net_error" THEN Raise(w1, "RequestException")
             ELSE IF resp = "200"
                  THEN Return([w1 EXCEPT !.po = DictSet(@, _key(bank_name, phone, account_id),
                                   [action |-> action, account_id |-> account_id, created |-> t])],
                              "json")
                  ELSE Raise(w1, "RuntimeError")

DefaultTtl == 600

\* Responses of POST /bank/{bank}/otp/verify: the request failing, a body
\* that is not JSON, or a JSON object (access_token, ttl and account_summary
\* may each be missing: NONE, and NoSummary).
NoSummary == << >>

\* Faulty variant: a verification that does not store the token (C5 tells it
\* apart)
verify_otp_and_get_token_NoSave(w, t, phone, otp, bank_name, account_id, resp) ==
    LET w1 == Log(w, [fn |-> "verify_otp", bank |-> bank_name, phone |-> phone,
                      account_id |-> account_id, otp |-> otp, resp |-> resp])
    IN  IF resp.kind # "json" THEN Raise(w1, resp.kind)
        ELSE LET w3 == [w1 EXCEPT !.po = DictPop(@, _key(bank_name, phone, account_id))]
                 account_summary == IF resp.account_summary # NoSummary
                                    THEN <<sanitize_bank_response(resp.account_summary[1])>>
                                    ELSE NoSummary
             IN  Return(w3, [token |-> resp.access_token,
                             account_summary |-> account_summary])

verify_otp_and_get_token(w, t, phone, otp, bank_name, account_id, resp) ==
    LET w1 == Log(w, [fn |-> "verify_otp", bank |-> bank_name, phone |-> phone,
                      account_id |-> account_id, otp |-> otp, resp |-> resp])
    IN  IF resp.kind # "json" THEN Raise(w1, resp.kind)
        ELSE LET token == resp.access_token
                 w2 == IF Truthy(token)
                       THEN save_token(w1, t, phone, bank_name, account_id, token,
                                       IF resp.ttl = << >> THEN DefaultTtl ELSE resp.ttl[1])
                       ELSE w1
                 w3 == [w2 EXCEPT !.po = DictPop(@, _key(bank_name, phone, account_id))]
                 account_summary == IF resp.account_summary # NoSummary
                                    THEN <<sanitize_bank_response(resp.account_summary[1])>>
                                    ELSE NoSummary
             IN  Return(w3, [token |-> token, account_summary |-> account_summary])

\* Responses of GET /bank/{bank}/accounts/{phone}: the request failing, an
\* error status, or a JSON list of accounts.
get_accounts(w, phone_num, bank_name, resp) ==
    LET w1 == Log(w, [fn |-> "get_accounts", bank |-> bank_name, phone |-> phone_num,
                      resp |-> resp])
    IN  IF resp.kind = "net_error" THEN Raise(w1, "RequestException")
        ELSE IF resp.kind = "http_error" THEN Raise(w1, "HTTPError")
        ELSE Return(w1, resp.list)

\* next((a for a in acc_list if a.get("accountId") == account_id), None), as
\* a sequence of at most one account
\* Faulty variant: the requested account is never looked for (C25 tells it
\* apart)
FirstMatch_Never(acc_list, account_id) == << >>

FirstMatch(acc_list, account_id) ==
    LET hits == {i \in 1..Len(acc_list) : acc_list[i].accountId = account_id} IN
    IF hits = {} THEN << >>
    ELSE <<acc_list[CHOOSE i \in hits : \A j \in hits : i <= j]>>

get_account_summary(w, t, account_id, phone_num, bank_name, otpResp, accResp) ==
    LET got == get_cached_token(w, t, phone_num, bank_name, account_id) IN
    IF ~Truthy(got.token)
    THEN LET r == request_otp_for_action(got.w, t, phone_num, bank_name,
                                         "get_account_summary", account_id, otpResp)
         IN  IF r.exc # NONE THEN Raise(r.w, r.exc)
             ELSE [w |-> r.w, exc |-> "NeedOTP",
                   ret |-> [phone |-> phone_num, bank_name |-> bank_name,
                            account_id |-> account_id]]
    ELSE LET r == get_accounts(got.w, phone_num, bank_name, accResp) IN
         IF r.exc # NONE THEN Raise(r.w, r.exc)
         ELSE LET acc_list == r.ret
                  hit == FirstMatch(acc_list, account_id)
                  acc == IF hit # << >> THEN hit[1]
                         ELSE IF acc_list # << >> THEN acc_list[1]
                         ELSE [accountId |-> account_id, balance |-> 0, label |-> "Unknown",
                               transactions |-> << >>, last_update |-> NONE]
                  raw == [account_number |-> acc.accountId, balance |-> acc.balance,
                          transactions |-> acc.transactions, last_update |-> acc.last_update]
              IN  Return(r.w, sanitize_bank_response(raw))


\* Responses of GET /health: the request failing, or the supported banks.
SupportedBanks == <<"mock", "hdbank">>

HealthResponses == {[kind |-> "net_error"], [kind |-> "json", banks |-> SupportedBanks]}

get_supported_banks(w, resp) ==
    LET w1 == Log(w, [fn |-> "health", resp |-> resp]) IN
    IF resp.kind # "json" THEN Raise(w1, "RequestException") ELSE Return(w1, resp.banks)

\* list_user_accounts: resps[i] is the gateway's answer for banks[i]; a bank
\* whose lookup raises or is empty is left out of the result.
RECURSIVE ListLoop(_, _, _, _, _)
ListLoop(w, phone_num, banks, resps, result) ==
    IF banks = << >> THEN Return(w, result)
    ELSE LET r == get_accounts(w, phone_num, Head(banks), Head(resps))
             entry == [i \in 1..Len(r.ret) |->
                          [accountId |-> r.ret[i].accountId, label |-> r.ret[i].label,
                           last_update |-> r.ret[i].last_update]]
             result1 == IF r.exc = NONE /\ r.ret # << >>
                        THEN DictSet(result, Head(banks), entry) ELSE result
         IN  ListLoop(r.w, phone_num, Tail(banks), Tail(resps), result1)

list_user_accounts(w, phone_num, healthResp, resps) ==
    LET h == get_supported_banks(w, healthResp) IN
    IF h.exc # NONE THEN Raise(h.w, h.exc)
    ELSE ListLoop(h.w, phone_num, h.ret, resps, EmptyDict)

\* search_services: the collection lookup can raise; the search itself
\* turns every failure into a text.
SearchResponses == {"hits", "no_hits", "no_collection", "search_error", "raise"}

search_services(w, query, bank_name, resp) ==
    LET w1 == Log(w, [fn |-> "search_services", bank |-> bank_name, query |-> query,
                      resp |-> resp])
    IN  IF resp = "raise" THEN Raise(w1, "Exception") ELSE Return(w1, resp)


----------------------------------------------------------------------------
(* service.py: text tests on the prompt.  The keywords are written without  *)
(* their diacritics.                                                        *)

Digits == {"0", "1", "2", "3", "4", "5", "6", "7", "8", "9"}

\* str.isdigit()
IsDigit(s) == s # << >> /\ \A i \in 1..Len(s) : s[i] \in Digits

LowerChar(c) == CASE c = "T" -> "t" [] c = "S" -> "s" [] c = "D" -> "d" [] OTHER -> c

\* str.lower()
Lower(s) == [i \in 1..Len(s) |-> LowerChar(s[i])]

\* kw in s
Contains(s, kw) ==
    \E i \in 1..(Len(s) - Len(kw) + 1) : SubSeq(s, i, i + Len(kw) - 1) = kw

KW_ACCOUNTS == <<"t", "a", "i", " ", "k", "h", "o", "a", "n">>
KW_BALANCE == <<"s", "o", " ", "d", "u">>
KW_TRANSACTIONS == <<"g", "i", "a", "o", " ", "d", "i", "c", "h">>
KW_SERVICES == <<"d", "i", "c", "h", " ", "v", "u">>

\* prompt.strip().isdigit() and len(prompt.strip()) in (5, 6)
LooksLikeOtp(prompt) == IsDigit(Strip(prompt)) /\ Len(Strip(prompt)) \in {5, 6}

IsListShortcut(prompt) ==
    /\ Contains(Lower(prompt), KW_ACCOUNTS)
    /\ ~Contains(Lower(prompt), KW_BALANCE)
    /\ ~Contains(Lower(prompt), KW_TRANSACTIONS)

----------------------------------------------------------------------------
(* service.py: synthesize_reply and the replies of handle_ask *)

SynthResponses == {"text", "raise"}

\* synthesize_reply: the LLM's answer is opaque; it is identified by what
\* the LLM was given (intent, tool data, planner text).
synthesize_reply(w, intent, tool_data, gemini_text, resp) ==
    LET w1 == Log(w, [fn |-> "synthesize", intent |-> intent, tool_data |-> tool_data,
                      resp |-> resp])
    IN  IF resp = "raise" THEN Raise(w1, "HTTPError")
        ELSE Return(w1, [kind |-> "llm", intent |-> intent, tool_data |-> tool_data,
                         gemini_text |-> gemini_text])

Request(user_id, prompt, account_id, bank_name, phone_num) ==
    [user_id |-> user_id, prompt |-> prompt, account_id |-> account_id,
     bank_name |-> bank_name, phone_num |-> phone_num]

\* chat_history.add_user_message(prompt); chat_history.add_ai_message(ans)
AddExchange(h, user_id, prompt, ans) ==
    [h EXCEPT ![user_id] = @ \o << <<"human", prompt>>, <<"ai", ans>> >>]

\* handle_ask returns {"reply": reply, "source": source}
Returned(w, req, source, reply, pa, h) ==
    /\ TOKEN_STORE' = w.ts
    /\ PENDING_OTP' = w.po
    /\ PENDING_ACTIONS' = pa
    /\ chat_history' = h
    /\ \A u \in DOMAIN h : Len(h[u]) <= MaxHistory
    /\ last' = [op |-> "handle_ask", req |-> req, calls |-> w.calls, source |-> source,
                reply |-> reply, exc |-> NONE]
    /\ UNCHANGED <<now, thr>>

\* handle_ask raises exc
Raised(w, req, exc, pa, h) ==
    /\ TOKEN_STORE' = w.ts
    /\ PENDING_OTP' = w.po
    /\ PENDING_ACTIONS' = pa
    /\ chat_history' = h
    /\ last' = [op |-> "handle_ask", req |-> req, calls |-> w.calls, source |-> NONE,
                reply |-> [kind |-> "none"], exc |-> exc]
    /\ UNCHANGED <<now, thr>>

\* Lines 93-96: the world after the supported-bank lookup.
Entry(healthResp) == get_supported_banks(World(TOKEN_STORE, PENDING_OTP, << >>), healthResp)

InSeq(x, s) == \E i \in 1..Len(s) : s[i] = x

\* The request got past the bank check.
Admitted(req, e) == e.exc = NONE /\ InSeq(req.bank_name, e.ret)


----------------------------------------------------------------------------
(* Inputs: what users send and what the collaborators answer *)

\* A1 is longer than the 8 characters mask_account blanks out entirely
A1 == <<"9", "7", "0", "4", "0", "0", "0", "0", "1", "1">>
A2 == <<"A", "2">>

Tx(m) == [date |-> "d1", amount |-> 5, merchant |-> m, type |-> "debit"]

Account(id) == [accountId |-> id, balance |-> 100, label |-> "main",
                transactions |-> <<Tx(<<"s", "h", "o", "p">>)>>, last_update |-> "d2"]

AccountLists == {<< >>, <<Account(A2), Account(A1)>>}

AccountsResponses ==
    {[kind |-> "http_error"]} \cup {[kind |-> "json", list |-> l] : l \in AccountLists}

Tokens == {"tok1"}

\* ttl the gateway returns with a token: << >> when the field is missing, 0
\* for a token that is already at its expiry when stored
Ttls == {<< >>, <<0>>, <<1>>}

RawSummary(id) == [account_number |-> id, balance |-> 100,
                   transactions |-> <<Tx(<<"s", "h", "o", "p">>)>>, last_update |-> "d2"]

VerifyResponses(account_id) ==
    {[kind |-> "RequestException"], [kind |-> "JSONDecodeError"]}
        \cup {[kind |-> "json", access_token |-> NONE, ttl |-> << >>,
                account_summary |-> NoSummary]}
        \cup {[kind |-> "json", access_token |-> tk, ttl |-> ttl, account_summary |-> sm] :
                 tk \in Tokens, ttl \in Ttls, sm \in {NoSummary, <<RawSummary(account_id)>>}}

Unused == [kind |-> "unused"]

----------------------------------------------------------------------------
(* service.py: handle_ask, one action per path through it *)

\* get_supported_banks() raises: the exception leaves handle_ask.
AskBanksUnavailable(req) ==
    \E hr \in HealthResponses :
        LET e == Entry(hr) IN
        /\ e.exc # NONE
        /\ Raised(e.w, req, e.exc, PENDING_ACTIONS, chat_history)

\* Lines 94-96
\* Faulty variant: the unsupported-bank reply also recorded in the transcript
\* (C6 tells it apart)
AskUnsupportedBank_Recording(req) ==
    \E hr \in HealthResponses :
        LET e == Entry(hr)
            reply == [kind |-> "unsupported_bank", banks |-> e.ret] IN
        /\ e.exc = NONE
        /\ ~InSeq(req.bank_name, e.ret)
        /\ Returned(e.w, req, "unsupported_bank", reply, PENDING_ACTIONS,
                    AddExchange(chat_history, req.user_id, req.prompt, reply))

AskUnsupportedBank(req) ==
    \E hr \in HealthResponses :
        LET e == Entry(hr) IN
        /\ e.exc = NONE
        /\ ~InSeq(req.bank_name, e.ret)
        /\ Returned(e.w, req, "unsupported_bank",
                    [kind |-> "unsupported_bank", bank_name |-> req.bank_name, banks |-> e.ret],
                    PENDING_ACTIONS, chat_history)

\* Faulty variant: a numeric code verified even without a waiting state, against
\* what the message carries (C3 tells it apart)
OtpTarget_NoWaitingCheck(req) ==
    IF Has(PENDING_ACTIONS, req.user_id) THEN <<PENDING_ACTIONS[req.user_id]>>
    ELSE <<[phone |-> req.phone_num, bank_name |-> req.bank_name,
            action |-> "get_account_summary", account_id |-> req.account_id]>>

\* Faulty variant: the code is verified against the phone, bank and account
\* the OTP message carries (C31 tells it apart)
OtpTarget_FromMessage(req) ==
    IF Has(PENDING_ACTIONS, req.user_id)
    THEN <<[phone |-> req.phone_num, bank_name |-> req.bank_name,
            action |-> "get_account_summary", account_id |-> req.account_id]>>
    ELSE << >>

\* Line 106: PENDING_ACTIONS.get(user_id), as a sequence of at most one entry
OtpTarget(req) ==
    IF Has(PENDING_ACTIONS, req.user_id) THEN <<PENDING_ACTIONS[req.user_id]>> ELSE << >>

\* Faulty variant: a failed OTP resume also clears the waiting state (C32
\* tells it apart)
OtpFailed_ClearsWaiting(w, req, exc) ==
    LET err_msg == [kind |-> "otp_failed", error |-> exc] IN
    Returned(w, req, "otp_failed", err_msg, DictPop(PENDING_ACTIONS, req.user_id),
             AddExchange(chat_history, req.user_id, req.prompt, err_msg))

\* Lines 135-139: the except branch of the OTP resume
OtpFailed(w, req, exc) ==
    LET err_msg == [kind |-> "otp_failed", error |-> exc] IN
    Returned(w, req, "otp_failed", err_msg, PENDING_ACTIONS,
             AddExchange(chat_history, req.user_id, req.prompt, err_msg))

\* Lines 117-134: synthesize the answer, clear the waiting state, reply
OtpVerified(w, req, tool_data) ==
    \E sr \in SynthResponses :
        LET s == synthesize_reply(w, "get_account_summary", tool_data, NONE, sr) IN
        IF s.exc # NONE THEN OtpFailed(s.w, req, s.exc)
        ELSE Returned(s.w, req, "otp_verified_resume", s.ret,
                      DictPop(PENDING_ACTIONS, req.user_id),
                      AddExchange(chat_history, req.user_id, req.prompt, s.ret))

\* Lines 105-139
AskOtpResume(req) ==
    \E hr \in HealthResponses :
        LET e == Entry(hr) IN
        /\ Admitted(req, e)
        /\ LooksLikeOtp(req.prompt)
        /\ OtpTarget(req) # << >>
        /\ LET pending == OtpTarget(req)[1]
               phone == pending.phone
               bank == pending.bank_name
               acct == pending.account_id
           IN  IF acct = NoAcct
               THEN Returned(e.w, req, "otp_failed", [kind |-> "otp_missing_account"],
                             PENDING_ACTIONS, chat_history)
               ELSE \E vr \in VerifyResponses(acct) :
                   LET v == verify_otp_and_get_token(e.w, now, phone, Strip(req.prompt),
                                                     bank, acct, vr)
                   IN  IF v.exc # NONE THEN OtpFailed(v.w, req, v.exc)
                       ELSE IF v.ret.account_summary # NoSummary
                       THEN OtpVerified(v.w, req, v.ret.account_summary[1])
                       ELSE LET cached == Truthy(get_cached_token(v.w, now, phone, bank,
                                                                  acct).token)
                            IN  \E otr \in (IF cached THEN {"unused"} ELSE OtpResponses),
                                   ar \in (IF cached THEN AccountsResponses ELSE {Unused}) :
                                    LET g == get_account_summary(v.w, now, acct, phone, bank,
                                                                 otr, ar)
                                    IN  IF g.exc # NONE THEN OtpFailed(g.w, req, g.exc)
                                        ELSE OtpVerified(g.w, req, g.ret)


\* The OTP-resume branch is not taken (or falls through): lines 105-107.
PastOtpCheck(req) == ~(LooksLikeOtp(req.prompt) /\ OtpTarget(req) # << >>)

\* One gateway answer per supported bank
ListResponses == {<<a, b>> : a \in AccountsResponses, b \in {[kind |-> "json", list |-> << >>]}}

\* Lines 233-237 and 143-147: list the accounts, synthesize, reply
ListAndReply(w, req, phone, source) ==
    \E hr \in HealthResponses, lr \in ListResponses :
        LET l == list_user_accounts(w, phone, hr, lr) IN
        IF l.exc # NONE THEN Raised(l.w, req, l.exc, PENDING_ACTIONS, chat_history)
        ELSE \E sr \in SynthResponses :
            LET s == synthesize_reply(l.w, "list_user_accounts", l.ret, NONE, sr) IN
            IF s.exc # NONE THEN Raised(s.w, req, s.exc, PENDING_ACTIONS, chat_history)
            ELSE Returned(s.w, req, source, s.ret, PENDING_ACTIONS,
                          AddExchange(chat_history, req.user_id, req.prompt, s.ret))

\* Lines 142-147
AskListShortcut(req) ==
    \E hr \in HealthResponses :
        LET e == Entry(hr) IN
        /\ Admitted(req, e)
        /\ PastOtpCheck(req)
        /\ IsListShortcut(req.prompt)
        /\ ListAndReply(e.w, req, req.phone_num, "AI_list_accounts_shortcut")

\* What call_gemini_planner returns (it never raises).
PlanFinal == [type |-> "final", text |-> "t"]
PlanBogus == [type |-> "bogus"]
PlanSummary(a) == [type |-> "function_call", name |-> "get_account_summary",
                   arguments |-> [account_id |-> a]]
PlanList(p) == [type |-> "function_call", name |-> "list_user_accounts",
                arguments |-> [phone_num |-> p]]
PlanSearch(q) == [type |-> "function_call", name |-> "search_services",
                  arguments |-> [query |-> q, bank_name |-> NONE]]
PlanOther == [type |-> "function_call", name |-> "transfer", arguments |-> EmptyDict]

\* Faulty variant: the planner is consulted before the listing shortcut is
\* looked at (C33 tells it apart)
Planned_BeforeShortcut(req, e) ==
    /\ Admitted(req, e)
    /\ PastOtpCheck(req)

\* Lines 150-151: the world and the planner's answer once the planner is reached
Planned(req, e) ==
    /\ Admitted(req, e)
    /\ PastOtpCheck(req)
    /\ ~IsListShortcut(req.prompt)

AfterPlanner(e, pr) == Log(e.w, [fn |-> "planner", resp |-> pr])

\* synthesize, append the exchange, reply; an exception leaves handle_ask
SynthAndReply(w, req, intent, tool_data, gemini_text, source) ==
    \E sr \in SynthResponses :
        LET s == synthesize_reply(w, intent, tool_data, gemini_text, sr) IN
        IF s.exc # NONE THEN Raised(s.w, req, s.exc, PENDING_ACTIONS, chat_history)
        ELSE Returned(s.w, req, source, s.ret, PENDING_ACTIONS,
                      AddExchange(chat_history, req.user_id, req.prompt, s.ret))

\* Lines 154-164
AskPlannerFinal(req, P) ==
    \E hr \in HealthResponses, pr \in P :
        LET e == Entry(hr)
            w == AfterPlanner(e, pr)
        IN  /\ Planned(req, e)
            /\ pr.type = "final"
            /\ IF Contains(Lower(req.prompt), KW_SERVICES)
               THEN \E xr \in SearchResponses :
                   LET x == search_services(w, req.prompt, req.bank_name, xr) IN
                   IF x.exc # NONE THEN Raised(x.w, req, x.exc, PENDING_ACTIONS, chat_history)
                   ELSE SynthAndReply(x.w, req, "search_services", x.ret, NONE,
                                      "llama_wrap_service")
               ELSE SynthAndReply(w, req, "chitchat", NONE, pr.text, "llama_wrap_final")

IsCall(pr, fn) == pr.type = "function_call" /\ pr.name = fn

\* Lines 229-237
AskListAccounts(req, P) ==
    \E hr \in HealthResponses, pr \in P :
        LET e == Entry(hr)
            w == AfterPlanner(e, pr)
        IN  /\ Planned(req, e)
            /\ IsCall(pr, "list_user_accounts")
            /\ LET phone == Or(pr.arguments.phone_num, req.phone_num) IN
               IF ~Truthy(phone)
               THEN Returned(w, req, "AI_list_accounts_failed",
                             [kind |-> "missing_phone"], PENDING_ACTIONS, chat_history)
               ELSE ListAndReply(w, req, phone, "AI_list_accounts")

\* Lines 239-248
AskSearchServices(req, P) ==
    \E hr \in HealthResponses, pr \in P :
        LET e == Entry(hr)
            w == AfterPlanner(e, pr)
        IN  /\ Planned(req, e)
            /\ IsCall(pr, "search_services")
            /\ LET query == pr.arguments.query
                   bank == Or(pr.arguments.bank_name, req.bank_name)
               IN  IF ~Truthy(query)
                   THEN Raised(w, req, "HTTPException400", PENDING_ACTIONS, chat_history)
                   ELSE \E xr \in SearchResponses :
                       LET x == search_services(w, query, bank, xr) IN
                       IF x.exc # NONE
                       THEN Raised(x.w, req, x.exc, PENDING_ACTIONS, chat_history)
                       ELSE SynthAndReply(x.w, req, "search_services", x.ret, NONE,
                                          "AI_service")

\* Lines 250-254
AskUnsupportedTool(req, P) ==
    \E hr \in HealthResponses, pr \in P :
        LET e == Entry(hr)
            w == AfterPlanner(e, pr)
        IN  /\ Planned(req, e)
            /\ pr.type = "function_call"
            /\ pr.name \notin {"get_account_summary", "list_user_accounts", "search_services"}
            /\ SynthAndReply(w, req, "unsupported", NONE, pr.name, "AI_tools_unsupported")

\* Line 256
AskUnexpectedPlanner(req, P) ==
    \E hr \in HealthResponses, pr \in P :
        LET e == Entry(hr)
            w == AfterPlanner(e, pr)
        IN  /\ Planned(req, e)
            /\ pr.type \notin {"final", "function_call"}
            /\ Raised(w, req, "HTTPException500", PENDING_ACTIONS, chat_history)


\* Faulty variant: a lookup that yields no account falls back on a default
\* account instead of leaving the account unresolved (C18 tells it apart)
AutoResolve_GuessesAccount(w, req, acct, resp) ==
    IF acct = NoAcct /\ Truthy(req.phone_num)
    THEN LET w1 == Log(w, [fn |-> "get_accounts_raw", bank |-> req.bank_name,
                           phone |-> req.phone_num, resp |-> resp])
         IN  [w |-> w1,
              acct |-> IF resp.kind = "json" /\ resp.list # << >>
                       THEN resp.list[1].accountId ELSE <<"0", "0", "0", "0", "0", "0", "0", "0", "0">>]
    ELSE [w |-> w, acct |-> acct]

\* Faulty variant: the auto-resolve takes the last account the gateway lists
\* (C34 tells it apart)
AutoResolve_LastListed(w, req, acct, resp) ==
    IF acct = NoAcct /\ Truthy(req.phone_num)
    THEN LET w1 == Log(w, [fn |-> "get_accounts_raw", bank |-> req.bank_name,
                           phone |-> req.phone_num, resp |-> resp])
         IN  [w |-> w1,
              acct |-> IF resp.kind = "json" /\ resp.list # << >>
                       THEN resp.list[Len(resp.list)].accountId ELSE acct]
    ELSE [w |-> w, acct |-> acct]

\* Lines 175-184: requests.get(...).json() and accounts[0]["accountId"], every
\* failure swallowed.  Returns [w, acct].
AutoResolve(w, req, acct, resp) ==
    IF acct = NoAcct /\ Truthy(req.phone_num)
    THEN LET w1 == Log(w, [fn |-> "get_accounts_raw", bank |-> req.bank_name,
                           phone |-> req.phone_num, resp |-> resp])
         IN  [w |-> w1,
              acct |-> IF resp.kind = "json" /\ resp.list # << >>
                       THEN resp.list[1].accountId ELSE acct]
    ELSE [w |-> w, acct |-> acct]

\* Faulty variant: the waiting state records the account id the request
\* carried instead of the one the challenge was opened for (C11 tells it apart)
NeedOtpReply_RequestAccount(w, req, n, acct) ==
    LET bank == Or(n.bank_name, req.bank_name) IN
    Returned(w, req, "need_otp",
             [kind |-> "need_otp", bank_name |-> bank, phone |-> n.phone,
              account_id |-> n.account_id],
             DictSet(PENDING_ACTIONS, req.user_id,
                     [phone |-> n.phone, bank_name |-> bank,
                      action |-> "get_account_summary", account_id |-> req.account_id]),
             chat_history)

\* Lines 198-224: the NeedOTP handler
NeedOtpReply(w, req, n, acct) ==
    LET acct_id == IF n.account_id # NoAcct THEN n.account_id ELSE acct
        bank == Or(n.bank_name, req.bank_name)
    IN  Returned(w, req, "need_otp",
                 [kind |-> "need_otp", bank_name |-> bank, phone |-> n.phone,
                  account_id |-> acct_id],
                 DictSet(PENDING_ACTIONS, req.user_id,
                         [phone |-> n.phone, bank_name |-> bank,
                          action |-> "get_account_summary", account_id |-> acct_id]),
                 chat_history)

\* Lines 170-227
AskAccountSummary(req, P) ==
    \E hr \in HealthResponses, pr \in P :
        LET e == Entry(hr)
            w == AfterPlanner(e, pr)
        IN  /\ Planned(req, e)
            /\ IsCall(pr, "get_account_summary")
            /\ LET acct0 == IF req.account_id # NoAcct THEN req.account_id
                            ELSE pr.arguments.account_id
                   resolving == acct0 = NoAcct /\ Truthy(req.phone_num)
               IN  \E rr \in (IF resolving THEN AccountsResponses ELSE {Unused}) :
                   LET a == AutoResolve(w, req, acct0, rr)
                       acct == a.acct
                   IN  IF acct = NoAcct
                       THEN LET clarification == [kind |-> "clarification"] IN
                            Returned(a.w, req, "clarification", clarification, PENDING_ACTIONS,
                                     AddExchange(chat_history, req.user_id, req.prompt,
                                                 clarification))
                       ELSE LET cached == Truthy(get_cached_token(a.w, now, req.phone_num,
                                                                  req.bank_name, acct).token)
                            IN  \E otr \in (IF cached THEN {"unused"} ELSE OtpResponses),
                                   ar \in (IF cached THEN AccountsResponses ELSE {Unused}) :
                                    LET g == get_account_summary(a.w, now, acct, req.phone_num,
                                                                 req.bank_name, otr, ar)
                                    IN  IF g.exc = "NeedOTP"
                                        THEN NeedOtpReply(g.w, req, g.ret, acct)
                                        ELSE IF g.exc # NONE
                                        THEN Raised(g.w, req, "HTTPException500",
                                                    PENDING_ACTIONS, chat_history)
                                        ELSE \E sr \in SynthResponses :
                                            LET s == synthesize_reply(g.w, "get_account_summary",
                                                                      g.ret, NONE, sr)
                                            IN  IF s.exc # NONE
                                                THEN Raised(s.w, req, "HTTPException500",
                                                            PENDING_ACTIONS, chat_history)
                                                ELSE Returned(s.w, req, "AI_summary_Account",
                                                              s.ret, PENDING_ACTIONS,
                                                              AddExchange(chat_history,
                                                                          req.user_id,
                                                                          req.prompt, s.ret))

\* handle_ask(user_id, prompt, account_id, bank_name, phone_num)
handle_ask(req, P) ==
    \/ AskBanksUnavailable(req)
    \/ AskUnsupportedBank(req)
    \/ AskOtpResume(req)
    \/ AskListShortcut(req)
    \/ AskPlannerFinal(req, P)
    \/ AskAccountSummary(req, P)
    \/ AskListAccounts(req, P)
    \/ AskSearchServices(req, P)
    \/ AskUnsupportedTool(req, P)
    \/ AskUnexpectedPlanner(req, P)

----------------------------------------------------------------------------
(* The environment: the clock, and Redis dropping an idle session *)

Tick == /\ now < MaxTime
        /\ now' = now + 1
        /\ UNCHANGED <<TOKEN_STORE, PENDING_OTP, PENDING_ACTIONS, chat_history, last, thr>>

\* memory_manager: a session is stored with a ttl and is gone once it lapses
ExpireSession(u) ==
    /\ chat_history[u] # << >>
    /\ chat_history' = [chat_history EXCEPT ![u] = << >>]
    /\ UNCHANGED <<now, TOKEN_STORE, PENDING_OTP, PENDING_ACTIONS, last, thr>>

----------------------------------------------------------------------------
(* Initial state: empty registries, no session *)

Users == {"u1", "u2"}

Threads == {"t1", "t2"}

Idle == [pc |-> "idle"]

Init ==
    /\ now = 0
    /\ TOKEN_STORE = EmptyDict
    /\ PENDING_OTP = EmptyDict
    /\ PENDING_ACTIONS = EmptyDict
    /\ chat_history = [u \in Users |-> << >>]
    /\ last = [op |-> "none"]
    /\ thr = [t \in Threads |-> Idle]

----------------------------------------------------------------------------
(* Spec: one user's requests, handled one after the other.  The prompts are *)
(* an OTP-shaped message and a balance question, so the listing shortcut    *)
(* and the planner's other tools are never reached and are left out of Next.*)

OTP5 == <<"1", "2", "3", "4", "5">>
P_BALANCE == <<"s", "o", " ", "d", "u">>

Requests ==
    {Request("u1", p, A1, b, "demo:thao") : p \in {OTP5, P_BALANCE},
                                            b \in {"mock", "unknownbank"}}

Plans == {PlanFinal, PlanSummary(NoAcct)}

Next ==
    \/ \E req \in Requests :
        \/ AskBanksUnavailable(req)
        \/ AskUnsupportedBank(req)
        \/ AskOtpResume(req)
        \/ AskPlannerFinal(req, Plans)
        \/ AskAccountSummary(req, Plans)
    \/ Tick
    \/ \E u \in Users : ExpireSession(u)

Spec == Init /\ [][Next]_vars


----------------------------------------------------------------------------
(* SpecCache: the token cache driven through save_token and                 *)
(* get_cached_token, for two keys, two tokens and lifetimes that lapse      *)
(* within the clock's range (0: already lapsed when stored).                *)

ApiBank == "mock"
ApiPhone == "demo:thao"
CacheAccounts == {A1, A2}
CacheTokens == {"tok1", "tok2"}
CacheTtls == {0, 1}

\* The record stored under key, as a sequence of at most one record
Stored(ts, key) == IF Has(ts, key) THEN <<ts[key]>> ELSE << >>

ApiSaveToken(acct, tok, ttl) ==
    LET w == save_token(World(TOKEN_STORE, PENDING_OTP, << >>), now, ApiPhone, ApiBank,
                        acct, tok, ttl)
    IN  /\ TOKEN_STORE' = w.ts
        /\ last' = [op |-> "save_token", key |-> _key(ApiBank, ApiPhone, acct),
                    token |-> tok, ttl |-> ttl]
        /\ UNCHANGED <<now, PENDING_OTP, PENDING_ACTIONS, chat_history, thr>>

ApiGetCachedToken(acct) ==
    LET key == _key(ApiBank, ApiPhone, acct)
        g == get_cached_token(World(TOKEN_STORE, PENDING_OTP, << >>), now, ApiPhone,
                              ApiBank, acct)
    IN  /\ TOKEN_STORE' = g.w.ts
        /\ last' = [op |-> "get_cached_token", key |-> key, ret |-> g.token,
                    seen |-> Stored(TOKEN_STORE, key), at |-> now]
        /\ UNCHANGED <<now, PENDING_OTP, PENDING_ACTIONS, chat_history, thr>>

NextCache ==
    \/ \E acct \in CacheAccounts, tok \in CacheTokens, ttl \in CacheTtls :
           ApiSaveToken(acct, tok, ttl)
    \/ \E acct \in CacheAccounts : ApiGetCachedToken(acct)
    \/ Tick

SpecCache == Init /\ [][NextCache]_vars

----------------------------------------------------------------------------
(* SpecApi: two threads open and verify challenges through bank_tool.  A    *)
(* thread gives up control at its POST to the gateway: the rest of the      *)
(* function runs when the response is in.                                   *)

ApiAccounts == {A1}
Actions == {"get_account_summary", "list_user_accounts"}

ApiVerifyResponses ==
    {[kind |-> "RequestException"],
     [kind |-> "json", access_token |-> NONE, ttl |-> << >>, account_summary |-> NoSummary],
     [kind |-> "json", access_token |-> "tok1", ttl |-> << >>,
      account_summary |-> NoSummary]}

Resume(t) == thr' = [thr EXCEPT ![t] = Idle]

\* bank_tool.py line 73: requests.post(url, json=payload, timeout=10)
ApiRequestOtpPost(t, acct, action) ==
    /\ thr[t].pc = "idle"
    /\ thr' = [thr EXCEPT ![t] = [pc |-> "request_otp", account_id |-> acct,
                                  action |-> action]]
    /\ UNCHANGED <<now, TOKEN_STORE, PENDING_OTP, PENDING_ACTIONS, chat_history, last>>

\* bank_tool.py lines 74-79
ApiRequestOtpReturn(t) ==
    /\ thr[t].pc = "request_otp"
    /\ \E resp \in OtpResponses :
        LET r == request_otp_for_action(World(TOKEN_STORE, PENDING_OTP, << >>), now,
                                        ApiPhone, ApiBank, thr[t].action,
                                        thr[t].account_id, resp)
        IN  /\ TOKEN_STORE' = r.w.ts
            /\ PENDING_OTP' = r.w.po
            /\ last' = [op |-> "request_otp_for_action", thread |-> t,
                        calls |-> r.w.calls, exc |-> r.exc,
                        before |-> Stored(PENDING_OTP, _key(ApiBank, ApiPhone,
                                                            thr[t].account_id))]
    /\ Resume(t)
    /\ UNCHANGED <<now, PENDING_ACTIONS, chat_history>>

\* bank_tool.py line 85: requests.post(url, json=payload, timeout=10)
ApiVerifyPost(t, acct) ==
    /\ thr[t].pc = "idle"
    /\ thr' = [thr EXCEPT ![t] = [pc |-> "verify_otp", account_id |-> acct]]
    /\ UNCHANGED <<now, TOKEN_STORE, PENDING_OTP, PENDING_ACTIONS, chat_history, last>>

\* bank_tool.py lines 86-96
ApiVerifyReturn(t) ==
    /\ thr[t].pc = "verify_otp"
    /\ \E resp \in ApiVerifyResponses :
        LET v == verify_otp_and_get_token(World(TOKEN_STORE, PENDING_OTP, << >>), now,
                                          ApiPhone, OTP5, ApiBank, thr[t].account_id, resp)
        IN  /\ TOKEN_STORE' = v.w.ts
            /\ PENDING_OTP' = v.w.po
            /\ last' = [op |-> "verify_otp_and_get_token", thread |-> t,
                        calls |-> v.w.calls, exc |-> v.exc]
    /\ Resume(t)
    /\ UNCHANGED <<now, PENDING_ACTIONS, chat_history>>

NextApi ==
    \/ \E t \in Threads :
        \/ \E acct \in ApiAccounts, action \in Actions : ApiRequestOtpPost(t, acct, action)
        \/ ApiRequestOtpReturn(t)
        \/ \E acct \in ApiAccounts : ApiVerifyPost(t, acct)
        \/ ApiVerifyReturn(t)
    \/ Tick

SpecApi == Init /\ [][NextApi]_vars

----------------------------------------------------------------------------
(* SpecD: one user talks to handle_ask about account A1 while another       *)
(* caller of bank_tool opens challenges for the same key.                   *)

DRequests == {Request("u1", p, A1, ApiBank, ApiPhone) : p \in {OTP5, P_BALANCE}}

NextD ==
    \/ \E action \in Actions : ApiRequestOtpPost("t1", A1, action)
    \/ ApiRequestOtpReturn("t1")
    \/ \E req \in DRequests :
        \/ AskAccountSummary(req, {PlanSummary(NoAcct)})
        \/ AskOtpResume(req)
    \/ Tick

SpecD == Init /\ [][NextD]_vars

----------------------------------------------------------------------------
(* SpecResolve: one user's balance questions that carry no account id, with *)
(* and without a phone, the planner naming no account either, and the OTP  *)
(* messages that follow.  The clock stands still: a token the gateway       *)
(* grants with ttl 0 is the expired one.                                    *)

ResolveRequests ==
    {Request("u1", P_BALANCE, NoAcct, "mock", ph) : ph \in {"demo:thao", NONE}}
        \cup {Request("u1", OTP5, NoAcct, "mock", "demo:thao")}

ResolvePlans == {PlanSummary(NoAcct)}

NextResolve ==
    \/ \E req \in ResolveRequests :
        \/ AskOtpResume(req)
        \/ AskAccountSummary(req, ResolvePlans)
    \/ \E u \in Users : ExpireSession(u)

SpecResolve == Init /\ [][NextResolve]_vars

----------------------------------------------------------------------------
(* SpecList: one user's accounts questions and the planner's listing calls, *)
(* with and without a phone.                                                *)

P_ACCOUNTS == <<"T", "a", "i", " ", "k", "h", "o", "a", "n">>

ListRequests ==
    {Request("u1", p, NoAcct, "mock", ph) : p \in {P_ACCOUNTS, P_BALANCE},
                                            ph \in {"demo:thao", NONE}}

ListPlans == {PlanList(NONE), PlanList("demo:thao")}

NextList ==
    \/ \E req \in ListRequests :
        \/ AskListShortcut(req)
        \/ AskListAccounts(req, ListPlans)
    \/ \E u \in Users : ExpireSession(u)

SpecList == Init /\ [][NextList]_vars

----------------------------------------------------------------------------
(* SpecTwo: two users ask about the same (bank, phone, account).  Only u1   *)
(* ever sends an OTP message, so u2 never verifies anything.                *)

TwoRequests ==
    {Request("u1", p, A1, ApiBank, ApiPhone) : p \in {OTP5, P_BALANCE}}
        \cup {Request("u2", P_BALANCE, A1, ApiBank, ApiPhone)}

NextTwo ==
    \/ \E req \in TwoRequests :
        \/ AskOtpResume(req)
        \/ AskAccountSummary(req, {PlanSummary(NoAcct)})
    \/ \E u \in Users : ExpireSession(u)

SpecTwo == Init /\ [][NextTwo]_vars

----------------------------------------------------------------------------
(* SpecKey: summary requests and OTP messages that may lack an account id:  *)
(* one user's handle_ask calls with no account id, and the summary tool     *)
(* called directly for a key with and without an account id.                *)

\* get_account_summary(account_id=acct, phone_num=ApiPhone, bank_name=ApiBank)
ApiGetAccountSummary(acct) ==
    \E otr \in OtpResponses, ar \in AccountsResponses :
        LET g == get_account_summary(World(TOKEN_STORE, PENDING_OTP, << >>), now, acct,
                                     ApiPhone, ApiBank, otr, ar)
        IN  /\ TOKEN_STORE' = g.w.ts
            /\ PENDING_OTP' = g.w.po
            /\ last' = [op |-> "get_account_summary", account_id |-> acct,
                        calls |-> g.w.calls, exc |-> g.exc, ret |-> g.ret]
            /\ UNCHANGED <<now, PENDING_ACTIONS, chat_history, thr>>

NextKey ==
    \/ \E req \in ResolveRequests :
        \/ AskOtpResume(req)
        \/ AskAccountSummary(req, ResolvePlans)
    \/ \E acct \in {NoAcct, A2} : ApiGetAccountSummary(acct)
    \/ \E u \in Users : ExpireSession(u)

SpecKey == Init /\ [][NextKey]_vars

----------------------------------------------------------------------------
(* SpecRace: two threads run get_cached_token on the shared TOKEN_STORE,    *)
(* one dictionary access at a time, while tokens are stored.  The clock     *)
(* stands still: a record stored with ttl 0 is the expired one.             *)

\* bank_tool.py line 51: rec = TOKEN_STORE.get(key)
ThrGetRead(t, acct) ==
    /\ thr[t].pc = "idle"
    /\ thr' = [thr EXCEPT ![t] = [pc |-> "get_cached_token:52", account_id |-> acct,
                                  rec |-> Stored(TOKEN_STORE, _key(ApiBank, ApiPhone, acct))]]
    /\ UNCHANGED <<now, TOKEN_STORE, PENDING_OTP, PENDING_ACTIONS, chat_history, last>>

\* bank_tool.py lines 52-54 and 56: the expiry test on the record read
ThrGetCheck(t) ==
    /\ thr[t].pc = "get_cached_token:52"
    /\ LET rec == thr[t].rec
           key == _key(ApiBank, ApiPhone, thr[t].account_id)
       IN  IF rec # << >> /\ rec[1].expires <= now
           THEN /\ thr' = [thr EXCEPT ![t] = [pc |-> "get_cached_token:55",
                                              account_id |-> thr[t].account_id,
                                              rec |-> rec]]
                /\ UNCHANGED last
           ELSE /\ last' = [op |-> "get_cached_token", thread |-> t, key |-> key,
                            ret |-> IF rec # << >> THEN rec[1].token ELSE NONE,
                            exc |-> NONE, seen |-> rec, deleted |-> << >>, at |-> now]
                /\ Resume(t)
    /\ UNCHANGED <<now, TOKEN_STORE, PENDING_OTP, PENDING_ACTIONS, chat_history>>

\* bank_tool.py lines 55-56: del TOKEN_STORE[key] raises KeyError when the
\* key is no longer in the dictionary
ThrGetDel(t) ==
    /\ thr[t].pc = "get_cached_token:55"
    /\ LET key == _key(ApiBank, ApiPhone, thr[t].account_id) IN
       /\ TOKEN_STORE' = IF Has(TOKEN_STORE, key) THEN DictDel(TOKEN_STORE, key)
                         ELSE TOKEN_STORE
       /\ last' = [op |-> "get_cached_token", thread |-> t, key |-> key, ret |-> NONE,
                   exc |-> IF Has(TOKEN_STORE, key) THEN NONE ELSE "KeyError",
                   seen |-> thr[t].rec, deleted |-> Stored(TOKEN_STORE, key), at |-> now]
    /\ Resume(t)
    /\ UNCHANGED <<now, PENDING_OTP, PENDING_ACTIONS, chat_history>>

NextRace ==
    \/ \E t \in Threads :
        \/ \E acct \in {A1} : ThrGetRead(t, acct)
        \/ ThrGetCheck(t)
        \/ ThrGetDel(t)
    \/ \E acct \in {A1}, tok \in CacheTokens, ttl \in CacheTtls :
           ApiSaveToken(acct, tok, ttl)

SpecRace == Init /\ [][NextRace]_vars

----------------------------------------------------------------------------
(* SpecTuple: the bank_tool functions called for several (bank, phone,      *)
(* account) tuples, phones and account ids with a ':' in them included.     *)
(* Each tuple is given a token of its own, so that a token tells which      *)
(* tuple it was stored for.  Gateway calls are made by threads, which may   *)
(* interleave while a call is in flight.                                    *)

Tuple(bank, phone, account_id) == [bank |-> bank, phone |-> phone, account_id |-> account_id]

KeyTuples ==
    <<Tuple("mock", "demo:thao", <<"1">>),
      Tuple("mock", "demo", <<"t", "h", "a", "o", ":", "1">>),
      Tuple("mock", "demo:thao", <<"2">>)>>

TupleTokens == <<"tok1", "tok2", "tok3">>

TupleSet == {KeyTuples[i] : i \in 1..Len(KeyTuples)}

KeyOf(tup) == _key(tup.bank, tup.phone, tup.account_id)

TokenFor(tup) == TupleTokens[CHOOSE i \in 1..Len(KeyTuples) : KeyTuples[i] = tup]

TupleVerifyResponses(tup) ==
    {[kind |-> "json", access_token |-> NONE, ttl |-> << >>, account_summary |-> NoSummary],
     [kind |-> "json", access_token |-> TokenFor(tup), ttl |-> << >>,
      account_summary |-> NoSummary]}

\* save_token(phone, bank_name, account_id, token, ttl_seconds)
TupSaveToken(tup, ttl) ==
    LET w == save_token(World(TOKEN_STORE, PENDING_OTP, << >>), now, tup.phone, tup.bank,
                        tup.account_id, TokenFor(tup), ttl)
    IN  /\ TOKEN_STORE' = w.ts
        /\ last' = [op |-> "save_token", tuple |-> tup, ttl |-> ttl]
        /\ UNCHANGED <<now, PENDING_OTP, PENDING_ACTIONS, chat_history, thr>>

\* get_cached_token(phone, bank_name, account_id)
TupGetCachedToken(tup) ==
    LET g == get_cached_token(World(TOKEN_STORE, PENDING_OTP, << >>), now, tup.phone,
                              tup.bank, tup.account_id)
    IN  /\ TOKEN_STORE' = g.w.ts
        /\ last' = [op |-> "get_cached_token", tuple |-> tup, ret |-> g.token]
        /\ UNCHANGED <<now, PENDING_OTP, PENDING_ACTIONS, chat_history, thr>>

\* bank_tool.py line 73: requests.post(url, json=payload, timeout=10)
TupRequestOtpPost(t, tup) ==
    /\ thr[t].pc = "idle"
    /\ thr' = [thr EXCEPT ![t] = [pc |-> "request_otp", tuple |-> tup]]
    /\ UNCHANGED <<now, TOKEN_STORE, PENDING_OTP, PENDING_ACTIONS, chat_history, last>>

\* bank_tool.py lines 74-79
TupRequestOtpReturn(t) ==
    /\ thr[t].pc = "request_otp"
    /\ \E resp \in OtpResponses :
        LET tup == thr[t].tuple
            r == request_otp_for_action(World(TOKEN_STORE, PENDING_OTP, << >>), now,
                                        tup.phone, tup.bank, "get_account_summary",
                                        tup.account_id, resp)
        IN  /\ TOKEN_STORE' = r.w.ts
            /\ PENDING_OTP' = r.w.po
            /\ last' = [op |-> "request_otp_for_action", tuple |-> tup, exc |-> r.exc]
    /\ Resume(t)
    /\ UNCHANGED <<now, PENDING_ACTIONS, chat_history>>

\* bank_tool.py line 85: requests.post(url, json=payload, timeout=10)
TupVerifyPost(t, tup) ==
    /\ thr[t].pc = "idle"
    /\ thr' = [thr EXCEPT ![t] = [pc |-> "verify_otp", tuple |-> tup]]
    /\ UNCHANGED <<now, TOKEN_STORE, PENDING_OTP, PENDING_ACTIONS, chat_history, last>>

\* bank_tool.py lines 86-96
TupVerifyReturn(t) ==
    /\ thr[t].pc = "verify_otp"
    /\ \E resp \in TupleVerifyResponses(thr[t].tuple) :
        LET tup == thr[t].tuple
            v == verify_otp_and_get_token(World(TOKEN_STORE, PENDING_OTP, << >>), now,
                                          tup.phone, OTP5, tup.bank, tup.account_id, resp)
        IN  /\ TOKEN_STORE' = v.w.ts
            /\ PENDING_OTP' = v.w.po
            /\ last' = [op |-> "verify_otp_and_get_token", tuple |-> tup, exc |-> v.exc]
    /\ Resume(t)
    /\ UNCHANGED <<now, PENDING_ACTIONS, chat_history>>

NextTuple ==
    \/ \E tup \in TupleSet :
        \/ \E ttl \in CacheTtls : TupSaveToken(tup, ttl)
        \/ TupGetCachedToken(tup)
        \/ \E t \in Threads : TupRequestOtpPost(t, tup)
        \/ \E t \in Threads : TupVerifyPost(t, tup)
    \/ \E t \in Threads :
        \/ TupRequestOtpReturn(t)
        \/ TupVerifyReturn(t)

SpecTuple == Init /\ [][NextTuple]_vars

----------------------------------------------------------------------------
(* SpecSanitize: the sanitizers applied to identifiers of every length up   *)
(* to MaxIdLen, padded with blanks or not, and to transaction lists of      *)
(* every length up to MaxTxs with merchants around the 30-character cap.    *)

MaxIdLen == 11
MaxTxs == 7

IdChars == <<"9", "7", "0", "4", "1", "2", "3", "5", "6", "8", "a", "b", "c">>

MaskInputs ==
    LET pads == {<< >>, <<" ">>, <<"\t", " ">>} IN
    {l \o SubSeq(IdChars, 1, n) \o r : n \in 0..MaxIdLen, l \in pads, r \in pads}

Rep(c, k) == [i \in 1..k |-> c]

\* The i-th transaction of a list: its amount is its position
TxAt(i, len) ==
    IF len = 0 THEN [date |-> "d1", amount |-> i, type |-> "debit"]
    ELSE [date |-> "d1", amount |-> i, merchant |-> Rep("m", len), type |-> "debit"]

TxLists ==
    {[i \in 1..n |-> TxAt(i, IF i % 2 = 1 THEN odd ELSE even)] :
        n \in 0..MaxTxs, odd \in {0, 4, 30, 31, 40},
        even \in {0, 4, 30, 31, 40}}

ApplyMaskAccount(acc) ==
    /\ last' = [op |-> "mask_account", acc |-> acc, ret |-> mask_account(acc)]
    /\ UNCHANGED <<now, TOKEN_STORE, PENDING_OTP, PENDING_ACTIONS, chat_history, thr>>

ApplySummarize(txs) ==
    /\ last' = [op |-> "summarize_transactions", txs |-> txs,
                ret |-> summarize_transactions(txs, 5)]
    /\ UNCHANGED <<now, TOKEN_STORE, PENDING_OTP, PENDING_ACTIONS, chat_history, thr>>

ApplySanitize(raw) ==
    /\ last' = [op |-> "sanitize_bank_response", raw |-> raw,
                ret |-> sanitize_bank_response(raw)]
    /\ UNCHANGED <<now, TOKEN_STORE, PENDING_OTP, PENDING_ACTIONS, chat_history, thr>>

NextSanitize ==
    \/ \E acc \in MaskInputs : ApplyMaskAccount(acc)
    \/ \E txs \in TxLists : ApplySummarize(txs)
    \/ \E acc \in MaskInputs, txs \in {<< >>, <<TxAt(1, 4)>>} :
           ApplySanitize([account_number |-> acc, balance |-> 100, transactions |-> txs,
                          last_update |-> "d2"])

SpecSanitize == Init /\ [][NextSanitize]_vars

----------------------------------------------------------------------------
(* SpecSummary: the summary tool called for an account the gateway lists    *)
(* (A1, second in the list) and for one it does not list (A3), with tokens  *)
(* stored beforehand.                                                       *)

A3 == <<"9", "7", "0", "4", "0", "0", "0", "0", "3", "3">>

NextSummary ==
    \/ \E acct \in {A1, A3}, tok \in Tokens, ttl \in CacheTtls :
           ApiSaveToken(acct, tok, ttl)
    \/ \E acct \in {A1, A3} : ApiGetAccountSummary(acct)

SpecSummary == Init /\ [][NextSummary]_vars

----------------------------------------------------------------------------
(* SpecSwitch: one user asks for the balance of one account, then of        *)
(* another, and sends OTP messages.                                         *)

SwitchRequests ==
    {Request("u1", P_BALANCE, a, ApiBank, ApiPhone) : a \in {A1, A2}}
        \cup {Request("u1", OTP5, A1, ApiBank, ApiPhone)}

NextSwitch ==
    \/ \E req \in SwitchRequests :
        \/ AskOtpResume(req)
        \/ AskAccountSummary(req, {PlanSummary(NoAcct)})
    \/ \E u \in Users : ExpireSession(u)

SpecSwitch == Init /\ [][NextSwitch]_vars

----------------------------------------------------------------------------
(* SpecOtpArgs: a balance question for A1 at bank mock, followed by OTP     *)
(* messages that carry another account or none, no phone, and another      *)
(* supported bank or an unsupported one.                                    *)

OtpArgsRequests ==
    {Request("u1", P_BALANCE, A1, ApiBank, ApiPhone)}
        \cup {Request("u1", OTP5, a, b, NONE) : a \in {A2, NoAcct},
                                                b \in {"hdbank", "unknownbank"}}

NextOtpArgs ==
    \/ \E req \in OtpArgsRequests :
        \/ AskBanksUnavailable(req)
        \/ AskUnsupportedBank(req)
        \/ AskOtpResume(req)
        \/ AskPlannerFinal(req, {PlanFinal})
        \/ AskAccountSummary(req, {PlanSummary(NoAcct)})
    \/ \E u \in Users : ExpireSession(u)

SpecOtpArgs == Init /\ [][NextOtpArgs]_vars

----------------------------------------------------------------------------
(* SpecFrame: u1 asks for a balance, sends OTP messages and chats, while   *)
(* u2 has accounts listed and time passes.  The planner's search tool       *)
(* writes the same variables as the chit-chat reply and is left out of Next.*)

NextFrame ==
    \/ \E req \in {Request("u1", p, A1, ApiBank, ApiPhone) : p \in {OTP5, P_BALANCE}} :
        \/ AskOtpResume(req)
        \/ AskPlannerFinal(req, {PlanFinal})
        \/ AskAccountSummary(req, {PlanSummary(NoAcct)})
    \/ AskListShortcut(Request("u2", P_ACCOUNTS, NoAcct, ApiBank, ApiPhone))
    \/ Tick
    \/ \E u \in Users : ExpireSession(u)

SpecFrame == Init /\ [][NextFrame]_vars

----------------------------------------------------------------------------
(* SpecRoute: one user's OTP messages, accounts questions and balance       *)
(* questions, each offered to the OTP resume, the listing shortcut and the   *)
(* planner's routes.                                                        *)

NextRoute ==
    \/ \E req \in {Request("u1", p, A1, ApiBank, ApiPhone) :
                       p \in {OTP5, P_ACCOUNTS, P_BALANCE}} :
        \/ AskOtpResume(req)
        \/ AskListShortcut(req)
        \/ AskPlannerFinal(req, {PlanFinal})
        \/ AskAccountSummary(req, {PlanSummary(NoAcct)})
    \/ \E u \in Users : ExpireSession(u)

SpecRoute == Init /\ [][NextRoute]_vars

----------------------------------------------------------------------------
(* SpecDispatch: one user's balance questions at either supported bank,     *)
(* with and without an account id, routed by the planner to the summary     *)
(* tool with and without an account id of its own.                          *)

NextDispatch ==
    \/ \E req \in {Request("u1", P_BALANCE, a, b, ApiPhone) :
                       a \in {A1, NoAcct}, b \in {"mock", "hdbank"}} :
        AskAccountSummary(req, {PlanSummary(NoAcct), PlanSummary(A3)})
    \/ \E u \in Users : ExpireSession(u)

SpecDispatch == Init /\ [][NextDispatch]_vars

----------------------------------------------------------------------------
(* Reading the observation of a handle_ask call *)

\* The step just taken is a handle_ask call, described by last'.
AskStep ==
    /\ last'.op = "handle_ask"
    /\ now' = now
    /\ \A u \in Users : Len(chat_history'[u]) >= Len(chat_history[u])

CallsTo(l, fn) == {i \in 1..Len(l.calls) : l.calls[i].fn = fn}

\* The request of l got past the supported-bank check.
PassedBankCheck(l) ==
    /\ l.calls # << >>
    /\ l.calls[1].fn = "health"
    /\ l.calls[1].resp.kind = "json"
    /\ InSeq(l.req.bank_name, l.calls[1].resp.banks)

\* A message that is purely numeric and 5 or 6 characters long once trimmed
NumericCode(prompt) ==
    LET body == SelectSeq(prompt, LAMBDA c : c # " ") IN
    /\ Len(body) \in {5, 6}
    /\ \A i \in 1..Len(body) : body[i] \in Digits
    /\ \E i, j \in 1..Len(prompt) : /\ i <= j
                                    /\ SubSeq(prompt, i, j) = body

\* The verify calls of l the gateway answered with a token
AcceptedVerifies(l) ==
    {i \in CallsTo(l, "verify_otp") :
        l.calls[i].resp.kind = "json" /\ Truthy(l.calls[i].resp.access_token)}

\* The verify calls of l the gateway answered without a token
RejectedVerifies(l) ==
    {i \in CallsTo(l, "verify_otp") :
        l.calls[i].resp.kind = "json" /\ ~Truthy(l.calls[i].resp.access_token)}

CallKey(c) == _key(c.bank, c.phone, c.account_id)

TtlOf(resp) == IF resp.ttl = << >> THEN DefaultTtl ELSE resp.ttl[1]

----------------------------------------------------------------------------
(* C1: after an OTP-resume step in which the gateway's verification of u's  *)
(* code returned a token with time-to-live T for u's waiting key k, the     *)
(* token cache holds that token for k with expiry now + T, the registry has *)
(* no pending challenge for k, and u has no waiting-state entry.            *)
C1_VerifiedClearsAll ==
    [][AskStep =>
        \A i \in AcceptedVerifies(last') :
            LET c == last'.calls[i]
                k == CallKey(c)
            IN  /\ Has(TOKEN_STORE', k)
                /\ TOKEN_STORE'[k] = [token |-> c.resp.access_token,
                                      expires |-> now + TtlOf(c.resp)]
                /\ ~Has(PENDING_OTP', k)
                /\ ~Has(PENDING_ACTIONS', last'.req.user_id)]_vars

\* A verification stored the token and closed the challenge, yet the reply
\* is a verification failure and the waiting state is still there.
C1_Witness ==
    /\ last.op = "handle_ask"
    /\ last.source = "otp_failed"
    /\ AcceptedVerifies(last) # {}
    /\ Has(PENDING_ACTIONS, last.req.user_id)
    /\ \A i \in AcceptedVerifies(last) :
           /\ Has(TOKEN_STORE, CallKey(last.calls[i]))
           /\ ~Has(PENDING_OTP, CallKey(last.calls[i]))

(* C2: when u, waiting on key k, sends a code the gateway rejects (the      *)
(* verify response carries no token), the pending challenge for k (action   *)
(* and created) and u's waiting-state entry are the same after the step as  *)
(* before it.                                                               *)
C2_RejectedLeavesChallenge ==
    [][AskStep =>
        \A i \in RejectedVerifies(last') :
            LET k == CallKey(last'.calls[i]) IN
            /\ PENDING_ACTIONS' = PENDING_ACTIONS
            /\ Has(PENDING_OTP, k) => /\ Has(PENDING_OTP', k)
                                      /\ PENDING_OTP'[k] = PENDING_OTP[k]]_vars

\* A rejected code took the pending challenge with it while the waiting
\* state stays.
C2_Witness ==
    /\ last.op = "handle_ask"
    /\ last.source = "otp_failed"
    /\ RejectedVerifies(last) # {}
    /\ Has(PENDING_ACTIONS, last.req.user_id)
    /\ \A i \in RejectedVerifies(last) : ~Has(PENDING_OTP, CallKey(last.calls[i]))

(* C3: a trimmed message that is purely numeric and 5 or 6 digits long, sent*)
(* by a user with no waiting-state entry, is never passed to the verify     *)
(* transition: no verify call is made, no token is stored, and the message  *)
(* is routed to the planner.                                                *)
C3_StrayCodeGoesToPlanner ==
    [][(/\ AskStep
        /\ PassedBankCheck(last')
        /\ NumericCode(last'.req.prompt)
        /\ ~Has(PENDING_ACTIONS, last'.req.user_id))
       => /\ CallsTo(last', "verify_otp") = {}
          /\ \A k \in DOMAIN TOKEN_STORE' : Has(TOKEN_STORE, k) /\ TOKEN_STORE'[k] = TOKEN_STORE[k]
          /\ CallsTo(last', "planner") # {}]_vars

C3_Witness ==
    /\ last.op = "handle_ask"
    /\ PassedBankCheck(last)
    /\ NumericCode(last.req.prompt)
    /\ last.source = "llama_wrap_final"
    /\ CallsTo(last, "planner") # {}
    /\ ~Has(PENDING_ACTIONS, last.req.user_id)


----------------------------------------------------------------------------
(* Reading a summary request *)

PlannerCall(l) == l.calls[CHOOSE i \in CallsTo(l, "planner") : TRUE]

\* The account a summary dispatch acts on: the request's, else the
\* planner's, else the first one the gateway listed.
SummaryAccount(l) ==
    IF l.req.account_id # NoAcct THEN l.req.account_id
    ELSE IF PlannerCall(l).resp.arguments.account_id # NoAcct
    THEN PlannerCall(l).resp.arguments.account_id
    ELSE LET raw == CallsTo(l, "get_accounts_raw") IN
         IF raw = {} THEN NoAcct
         ELSE LET r == l.calls[CHOOSE i \in raw : TRUE].resp IN
              IF r.kind = "json" /\ r.list # << >> THEN r.list[1].accountId ELSE NoAcct

\* l is a request the planner routed to get_account_summary, with an account.
IsSummaryRequest(l) ==
    /\ PassedBankCheck(l)
    /\ CallsTo(l, "planner") # {}
    /\ PlannerCall(l).resp.type = "function_call"
    /\ PlannerCall(l).resp.name = "get_account_summary"
    /\ SummaryAccount(l) # NoAcct

SummaryKey(l) == _key(l.req.bank_name, l.req.phone_num, SummaryAccount(l))

\* No collaborator call of l failed.
NoCallFailed(l) ==
    \A i \in 1..Len(l.calls) :
        LET c == l.calls[i] IN
        /\ c.fn = "request_otp" => c.resp = "200"
        /\ c.fn = "get_accounts" => c.resp.kind = "json"
        /\ c.fn = "synthesize" => c.resp = "text"
        /\ c.fn = "verify_otp" => c.resp.kind = "json"

\* A label the masking produced: the fixed mask, or 4 + "..." + 4 characters
IsMasked(label) ==
    \/ label = <<"*", "*", "*", "*">>
    \/ Len(label) = 11 /\ SubSeq(label, 5, 7) = <<".", ".", ".">>

\* The reply of l is an answer synthesized from a sanitized summary.
RepliesSummary(l) ==
    /\ l.reply.kind = "llm"
    /\ l.reply.intent = "get_account_summary"
    /\ IsMasked(l.reply.tool_data.account_label)
    /\ Len(l.reply.tool_data.recent_transactions) <= 5

----------------------------------------------------------------------------
(* C4, as claimed: a summary request for a key whose cached token is still  *)
(* valid (expires > now) returns a sanitized summary immediately: no        *)
(* challenge-issuance call, no pending challenge created, no waiting-state  *)
(* entry registered.                                                        *)
C4_ValidTokenAlwaysSummary ==
    [][(/\ AskStep
        /\ IsSummaryRequest(last')
        /\ Has(TOKEN_STORE, SummaryKey(last'))
        /\ TOKEN_STORE[SummaryKey(last')].expires > now)
       => /\ last'.source = "AI_summary_Account"
          /\ RepliesSummary(last')
          /\ CallsTo(last', "request_otp") = {}
          /\ PENDING_OTP' = PENDING_OTP
          /\ PENDING_ACTIONS' = PENDING_ACTIONS]_vars

(* C4, amended: such a request never calls challenge issuance, creates no   *)
(* pending challenge and registers no waiting-state; it returns a sanitized *)
(* summary when the account fetch and the reply synthesis succeed, and      *)
(* raises a service-level error (HTTP 500) when either fails.               *)
C4_ValidTokenNoChallenge ==
    [][(/\ AskStep
        /\ IsSummaryRequest(last')
        /\ Has(TOKEN_STORE, SummaryKey(last'))
        /\ TOKEN_STORE[SummaryKey(last')].expires > now)
       => /\ CallsTo(last', "request_otp") = {}
          /\ PENDING_OTP' = PENDING_OTP
          /\ PENDING_ACTIONS' = PENDING_ACTIONS
          /\ TOKEN_STORE' = TOKEN_STORE
          /\ IF NoCallFailed(last')
             THEN last'.source = "AI_summary_Account" /\ RepliesSummary(last')
             ELSE last'.exc = "HTTPException500"]_vars

C4_Witness ==
    /\ last.op = "handle_ask"
    /\ IsSummaryRequest(last)
    /\ last.source = "AI_summary_Account"
    /\ RepliesSummary(last)
    /\ \E i \in CallsTo(last, "get_cached_token") :
           last.calls[i].key = SummaryKey(last) /\ last.calls[i].found = "valid"
    /\ TOKEN_STORE[SummaryKey(last)].expires > now

----------------------------------------------------------------------------
\* l is a summary request that found no token cached under its key.
UncachedSummaryRequest(l) ==
    /\ l.op = "handle_ask"
    /\ IsSummaryRequest(l)
    /\ \E i \in CallsTo(l, "get_cached_token") :
           l.calls[i].key = SummaryKey(l) /\ l.calls[i].found = "absent"

\* The step just taken is the same user's next message, a numeric code that
\* the gateway, whenever asked to verify it, accepts.
CorrectOtpFollowUp ==
    /\ AskStep
    /\ last'.req.user_id = last.req.user_id
    /\ PassedBankCheck(last')
    /\ NumericCode(last'.req.prompt)
    /\ CallsTo(last', "verify_otp") = AcceptedVerifies(last')

\* What scenario A promises of the two replies
ScenarioAOutcome ==
    /\ last.source = "need_otp"
    /\ last.reply.kind = "need_otp"
    /\ last.reply.phone = last.req.phone_num
    /\ last.reply.bank_name = last.req.bank_name
    /\ last.reply.account_id = SummaryAccount(last)
    /\ last'.source = "otp_verified_resume"
    /\ RepliesSummary(last')
    /\ AcceptedVerifies(last') # {}
    /\ \A i \in AcceptedVerifies(last') : CallKey(last'.calls[i]) = SummaryKey(last)
    /\ Cardinality(CallsTo(last, "request_otp"))
         + Cardinality(CallsTo(last', "request_otp")) = 1

----------------------------------------------------------------------------
(* C6: a request whose bank_name is not in the gateway's supported-bank set *)
(* returns a reply enumerating the supported banks and mutates nothing: the *)
(* token cache, the registry, every waiting-state and the transcript are    *)
(* unchanged, and no planner, verify or challenge call is made.             *)
C6_UnsupportedBankTouchesNothing ==
    [][(/\ AskStep
        /\ last'.calls # << >>
        /\ last'.calls[1].fn = "health"
        /\ last'.calls[1].resp.kind = "json"
        /\ ~InSeq(last'.req.bank_name, last'.calls[1].resp.banks))
       => /\ last'.source = "unsupported_bank"
          /\ last'.reply.kind = "unsupported_bank"
          /\ last'.reply.banks = last'.calls[1].resp.banks
          /\ TOKEN_STORE' = TOKEN_STORE
          /\ PENDING_OTP' = PENDING_OTP
          /\ PENDING_ACTIONS' = PENDING_ACTIONS
          /\ chat_history' = chat_history
          /\ Len(last'.calls) = 1]_vars

C6_Witness ==
    /\ last.op = "handle_ask"
    /\ last.req.bank_name = "unknownbank"
    /\ last.source = "unsupported_bank"
    /\ PENDING_ACTIONS # EmptyDict
    /\ TOKEN_STORE # EmptyDict

----------------------------------------------------------------------------
----------------------------------------------------------------------------
(* C7, as claimed: when a second request for a key arrives while the key is *)
(* challenged for a different action, the second open overwrites the first  *)
(* pending challenge, and a subsequent correct OTP completes the action     *)
(* recorded by the second request and not the action of the first.  Here    *)
(* the user's waiting state still names the first action, the registry the  *)
(* second, and the OTP message is verified and answered without a failure.  *)
C7_SecondActionCompleted ==
    [][(/\ AskStep
        /\ Has(PENDING_ACTIONS, last'.req.user_id)
        /\ LET pa == PENDING_ACTIONS[last'.req.user_id]
               k == _key(pa.bank_name, pa.phone, pa.account_id)
           IN  /\ Has(PENDING_OTP, k)
               /\ PENDING_OTP[k].action # pa.action
        /\ AcceptedVerifies(last') # {}
        /\ NoCallFailed(last'))
       => LET pa == PENDING_ACTIONS[last'.req.user_id]
              k == _key(pa.bank_name, pa.phone, pa.account_id)
          IN  /\ last'.reply.kind = "llm"
              /\ last'.reply.intent = PENDING_OTP[k].action
              /\ last'.reply.intent # pa.action]_vars

\* The second open has overwritten the challenge of the first request.
C7_Witness ==
    /\ Has(PENDING_ACTIONS, "u1")
    /\ LET pa == PENDING_ACTIONS["u1"]
           k == _key(pa.bank_name, pa.phone, pa.account_id)
       IN  /\ Has(PENDING_OTP, k)
           /\ pa.action = "get_account_summary"
           /\ PENDING_OTP[k].action = "list_user_accounts"
    /\ last.op = "request_otp_for_action"
    /\ last.before # << >>
    /\ last.before[1].action = "get_account_summary"

----------------------------------------------------------------------------
(* C8: for every key, token and ttl, save_token leaves under the key the    *)
(* record (token, now + ttl), replacing whatever was there and touching no  *)
(* other key; get_cached_token returns the stored token and changes nothing *)
(* when now < the stored expiry, and otherwise (no record, or now >= the    *)
(* stored expiry, the expiry instant included) returns absent and leaves no *)
(* record under the key, touching no other key.                             *)
C8_TokenCacheContract ==
    [][(now' = now)
       => /\ last'.op = "save_token" =>
                /\ Has(TOKEN_STORE', last'.key)
                /\ TOKEN_STORE'[last'.key] =
                       [token |-> last'.token, expires |-> now + last'.ttl]
                /\ \A q \in (DOMAIN TOKEN_STORE \cup DOMAIN TOKEN_STORE') \ {last'.key} :
                       Stored(TOKEN_STORE', q) = Stored(TOKEN_STORE, q)
          /\ last'.op = "get_cached_token" =>
                IF Has(TOKEN_STORE, last'.key) /\ now < TOKEN_STORE[last'.key].expires
                THEN /\ last'.ret = TOKEN_STORE[last'.key].token
                     /\ TOKEN_STORE' = TOKEN_STORE
                ELSE /\ last'.ret = NONE
                     /\ ~Has(TOKEN_STORE', last'.key)
                     /\ \A q \in (DOMAIN TOKEN_STORE \cup DOMAIN TOKEN_STORE')
                                    \ {last'.key} :
                            Stored(TOKEN_STORE', q) = Stored(TOKEN_STORE, q)]_vars

\* A lookup made exactly at the expiry instant of a record stored earlier
\* with a positive lifetime: absent, and the record is gone.
C8_Witness ==
    /\ last.op = "get_cached_token"
    /\ last.seen # << >>
    /\ last.seen[1].expires = last.at
    /\ last.at > 0
    /\ last.ret = NONE
    /\ ~Has(TOKEN_STORE, last.key)

----------------------------------------------------------------------------
(* C9: the registry holds at most one pending challenge per (bank, phone,   *)
(* account) in every state, concurrent opens of the same key included:      *)
(* every entry sits under the key of its own account; an open that returns  *)
(* leaves under its key exactly its own challenge (action, account, created *)
(* now), whatever was pending before and whoever else is opening, and adds  *)
(* no other entry; a verification that returns removes the entry of its key *)
(* and nothing else, and changes nothing when the key had none.             *)
C9_OnePendingPerKey ==
    [][\A t \in Threads :
        LET k == _key(ApiBank, ApiPhone, thr[t].account_id) IN
        /\ \A q \in DOMAIN PENDING_OTP' :
               q = _key(ApiBank, ApiPhone, PENDING_OTP'[q].account_id)
        /\ (thr[t].pc = "request_otp" /\ thr'[t].pc = "idle" /\ last'.exc = NONE)
             => /\ DOMAIN PENDING_OTP' = DOMAIN PENDING_OTP \cup {k}
                /\ PENDING_OTP'[k] = [action |-> thr[t].action,
                                      account_id |-> thr[t].account_id,
                                      created |-> now]
                /\ \A q \in DOMAIN PENDING_OTP \ {k} : PENDING_OTP'[q] = PENDING_OTP[q]
        /\ (thr[t].pc = "verify_otp" /\ thr'[t].pc = "idle" /\ last'.exc = NONE)
             => /\ DOMAIN PENDING_OTP' = DOMAIN PENDING_OTP \ {k}
                /\ \A q \in DOMAIN PENDING_OTP' : PENDING_OTP'[q] = PENDING_OTP[q]
                /\ ~Has(PENDING_OTP, k) => PENDING_OTP' = PENDING_OTP]_vars

\* An open has just replaced a pending challenge of the same key while the
\* other thread's open of that key is still in flight.
C9_Witness ==
    /\ last.op = "request_otp_for_action"
    /\ last.exc = NONE
    /\ last.before # << >>
    /\ \E t \in Threads :
           /\ t # last.thread
           /\ thr[t].pc = "request_otp"
           /\ LET k == _key(ApiBank, ApiPhone, thr[t].account_id) IN
              /\ Has(PENDING_OTP, k)
              /\ PENDING_OTP[k] # last.before[1]
              /\ last.calls[1].account_id = thr[t].account_id

----------------------------------------------------------------------------
\* The challenge-issuance calls of l the gateway accepted
OpenedChallenges(l) == {i \in CallsTo(l, "request_otp") : l.calls[i].resp = "200"}

----------------------------------------------------------------------------
(* C12: every handle_ask call that returns a reply after the bank check     *)
(* appends to that user's transcript exactly the pair (user, message) then  *)
(* (assistant, reply), for every kind of terminal reply, the                *)
(* authorization-required prompt included; nothing else of the transcript   *)
(* changes.                                                                 *)
C12_EveryReplyRecorded ==
    [][(AskStep /\ PassedBankCheck(last') /\ last'.exc = NONE)
       => /\ chat_history'[last'.req.user_id] =
                chat_history[last'.req.user_id]
                    \o << <<"human", last'.req.prompt>>, <<"ai", last'.reply>> >>
          /\ \A u \in Users \ {last'.req.user_id} : chat_history'[u] = chat_history[u]]_vars

\* The authorization-required prompt was returned and the transcript holds
\* nothing of the exchange.
C12_Witness ==
    /\ last.op = "handle_ask"
    /\ last.source = "need_otp"
    /\ chat_history[last.req.user_id] = << >>

----------------------------------------------------------------------------
\* The account identifiers that leave the core with l: in the reply, and in
\* the tool data handed to the response synthesis.
OutboundAccountIds(l) ==
    (IF l.reply.kind = "need_otp" THEN {l.reply.account_id} ELSE {})
    \cup {l.calls[i].tool_data.account_label :
             i \in {j \in CallsTo(l, "synthesize") :
                        l.calls[j].intent = "get_account_summary"}}
    \cup UNION {UNION {{l.calls[i].tool_data[b][n].accountId :
                          n \in 1..Len(l.calls[i].tool_data[b])} :
                      b \in DOMAIN l.calls[i].tool_data} :
                 i \in {j \in CallsTo(l, "synthesize") :
                            l.calls[j].intent = "list_user_accounts"}}

(* C13: every account identifier that leaves the core, in a reply or in the *)
(* tool data handed to the response synthesis (account summary, account     *)
(* listing, OTP prompt), has passed through the masking transform.          *)
C13_OnlyMaskedIdsLeave ==
    [][AskStep => \A id \in OutboundAccountIds(last') : IsMasked(id)]_vars

\* The OTP prompt names the account by its full identifier.
C13_Witness ==
    /\ last.op = "handle_ask"
    /\ last.source = "need_otp"
    /\ last.reply.account_id = A1

----------------------------------------------------------------------------
(* C14: authorization is tracked per user as well as per key: the token     *)
(* that u1's verification obtained for a key does not let u2's summary      *)
(* request for the same key be served.  u2 verifies nothing in SpecTwo, so  *)
(* none of u2's summary requests is answered with a summary.                *)
C14_OtherUserNotServed ==
    [][(AskStep /\ last'.req.user_id = "u2") => last'.source # "AI_summary_Account"]_vars

\* u2 was served the summary of the key u1 verified, without any challenge
\* and without ever having had a waiting state.
C14_Witness ==
    /\ last.op = "handle_ask"
    /\ last.req.user_id = "u2"
    /\ last.source = "AI_summary_Account"
    /\ CallsTo(last, "request_otp") = {}
    /\ ~Has(PENDING_ACTIONS, "u2")
    /\ Has(TOKEN_STORE, _key(ApiBank, ApiPhone, A1))

----------------------------------------------------------------------------
\* The challenge-issuance calls of l that failed: an error status, or the
\* request itself failing.
FailedIssuance(l) == {i \in CallsTo(l, "request_otp") : l.calls[i].resp # "200"}

(* C15: when the gateway's challenge-issuance call fails (status >= 400 or  *)
(* a network error) during a summary request, no pending challenge is       *)
(* created, the user's waiting state is neither registered nor changed, the *)
(* request ends in a service-level error, and the call was made only once.  *)
C15_FailedIssuanceLeavesNoTrace ==
    [][(AskStep /\ IsSummaryRequest(last') /\ FailedIssuance(last') # {})
       => /\ PENDING_OTP' = PENDING_OTP
          /\ PENDING_ACTIONS' = PENDING_ACTIONS
          /\ last'.exc = "HTTPException500"
          /\ Cardinality(CallsTo(last', "request_otp")) = 1]_vars

\* A summary request whose challenge issuance got an error status, for a key
\* with no challenge pending and a user with no waiting state.
C15_Witness ==
    /\ last.op = "handle_ask"
    /\ IsSummaryRequest(last)
    /\ \E i \in FailedIssuance(last) : last.calls[i].resp = "400"
    /\ last.exc = "HTTPException500"
    /\ ~Has(PENDING_OTP, SummaryKey(last))
    /\ ~Has(PENDING_ACTIONS, last.req.user_id)

----------------------------------------------------------------------------
(* C16: apart from the authorization-required signal, every exception a     *)
(* collaborator raises during handle_ask, the OTP-resume branch included,   *)
(* surfaces as a service-level error: a call in which a gateway request or  *)
(* the response synthesis failed never ends in an ordinary reply.           *)
C16_CollaboratorFailureIsError ==
    [][(AskStep /\ ~NoCallFailed(last')) => last'.exc # NONE]_vars

\* The gateway's verification request failed and the caller got an
\* ordinary reply.
C16_Witness ==
    /\ last.op = "handle_ask"
    /\ last.exc = NONE
    /\ last.source = "otp_failed"
    /\ \E i \in CallsTo(last, "verify_otp") : last.calls[i].resp.kind = "RequestException"

----------------------------------------------------------------------------
(* C17: the OTP-resume step reports a verification failure only when        *)
(* verification stored no token: whenever the reply to an OTP message is a  *)
(* verification failure, the token cache is what it was before the message  *)
(* and the user's waiting state is untouched.                               *)
C17_FailureStoresNothing ==
    [][(AskStep /\ NumericCode(last'.req.prompt) /\ last'.source = "otp_failed")
       => /\ TOKEN_STORE' = TOKEN_STORE
          /\ PENDING_ACTIONS' = PENDING_ACTIONS]_vars

\* The gateway accepted the code and the token is in the cache, yet the reply
\* is a verification failure and the user is still waiting.
C17_Witness ==
    /\ last.op = "handle_ask"
    /\ last.source = "otp_failed"
    /\ \E i \in AcceptedVerifies(last) : Has(TOKEN_STORE, CallKey(last.calls[i]))
    /\ Has(PENDING_ACTIONS, last.req.user_id)

----------------------------------------------------------------------------
\* l is a call the planner routed to get_account_summary in which neither
\* the request, nor the planner, nor the gateway lookup gave an account.
IsUnresolvedSummary(l) ==
    /\ PassedBankCheck(l)
    /\ CallsTo(l, "planner") # {}
    /\ PlannerCall(l).resp.type = "function_call"
    /\ PlannerCall(l).resp.name = "get_account_summary"
    /\ SummaryAccount(l) = NoAcct

(* C18: when an account-summary dispatch has no account id from the request *)
(* or the planner and the gateway lookup yields none (no phone, empty list, *)
(* lookup error), the reply is the clarification question, no challenge is  *)
(* issued, and the token cache, the pending challenges and the waiting      *)
(* states are unchanged.                                                    *)
C18_UnresolvedAsksToClarify ==
    [][(AskStep /\ IsUnresolvedSummary(last'))
       => /\ last'.exc = NONE
          /\ last'.source = "clarification"
          /\ last'.reply = [kind |-> "clarification"]
          /\ CallsTo(last', "request_otp") = {}
          /\ TOKEN_STORE' = TOKEN_STORE
          /\ PENDING_OTP' = PENDING_OTP
          /\ PENDING_ACTIONS' = PENDING_ACTIONS]_vars

\* A balance question with a phone and no account whose gateway lookup
\* failed, asked by a user who is waiting for a code: answered by the
\* clarification question.
C18_Witness ==
    /\ last.op = "handle_ask"
    /\ IsUnresolvedSummary(last)
    /\ last.source = "clarification"
    /\ \E i \in CallsTo(last, "get_accounts_raw") : last.calls[i].resp.kind = "http_error"
    /\ Has(PENDING_ACTIONS, last.req.user_id)

----------------------------------------------------------------------------
\* l is a listing request: the accounts-keyword shortcut (no planner call),
\* or the planner's list_user_accounts action.
IsListingRequest(l) ==
    /\ PassedBankCheck(l)
    /\ IF CallsTo(l, "planner") = {}
       THEN IsListShortcut(l.req.prompt) /\ CallsTo(l, "verify_otp") = {}
       ELSE /\ PlannerCall(l).resp.type = "function_call"
            /\ PlannerCall(l).resp.name = "list_user_accounts"

\* The phone a listing request lists the accounts of.
ListingPhone(l) ==
    IF CallsTo(l, "planner") = {} THEN l.req.phone_num
    ELSE Or(PlannerCall(l).resp.arguments.phone_num, l.req.phone_num)

(* C19: a listing request made with no phone, through the accounts-keyword  *)
(* shortcut or through the planner's list_user_accounts action, is answered *)
(* with a clarification or structured error and never queries the gateway's *)
(* account-listing endpoint.                                                *)
C19_NoPhoneNoListing ==
    [][(AskStep /\ IsListingRequest(last') /\ ~Truthy(ListingPhone(last')))
       => /\ last'.exc = NONE
          /\ last'.source \in {"AI_list_accounts_failed", "clarification"}
          /\ CallsTo(last', "get_accounts") = {}]_vars

\* An accounts question with no phone: the gateway's listing endpoint was
\* queried for the phone None and the answer was synthesized from it.
C19_Witness ==
    /\ last.op = "handle_ask"
    /\ last.source = "AI_list_accounts_shortcut"
    /\ last.req.phone_num = NONE
    /\ \E i \in CallsTo(last, "get_accounts") : last.calls[i].phone = NONE

----------------------------------------------------------------------------
(* C20: after any sequence of summary requests and OTP messages, no token   *)
(* record and no pending challenge exists under a key whose account id is   *)
(* absent or empty, a pending challenge always names its account, and no    *)
(* verification was attempted with an empty account id.                     *)
C20_NoKeyWithoutAccount ==
    /\ \A p \in {ApiPhone, NONE} :
           /\ ~Has(TOKEN_STORE, _key(ApiBank, p, NoAcct))
           /\ ~Has(PENDING_OTP, _key(ApiBank, p, NoAcct))
    /\ \A k \in DOMAIN PENDING_OTP : PENDING_OTP[k].account_id # NoAcct
    /\ last.op = "handle_ask"
           => \A i \in CallsTo(last, "verify_otp") : last.calls[i].account_id # NoAcct

\* The summary tool was asked for a key with no account id and refused,
\* while a challenge is pending under a key that has one.
C20_Witness ==
    /\ last.op = "get_account_summary"
    /\ last.account_id = NoAcct
    /\ last.exc = "ValueError"
    /\ Has(PENDING_OTP, _key(ApiBank, ApiPhone, A2))

----------------------------------------------------------------------------
(* C21: in every interleaving of concurrent lookups and stores on the token *)
(* cache, two lookups racing on the same expired key included,              *)
(* get_cached_token returns a token or absent and never raises.             *)
C21_LookupNeverRaises ==
    last.op = "get_cached_token" => last.exc = NONE

\* A lookup that read an expired record found the key gone when it came to
\* delete it.
C21_Witness ==
    /\ last.op = "get_cached_token"
    /\ last.exc = "KeyError"
    /\ last.seen # << >>
    /\ ~Has(TOKEN_STORE, last.key)

----------------------------------------------------------------------------
(* C30: in every interleaving of a token lookup and a token store on the    *)
(* same key, the lazy purge removes only the expired record the lookup      *)
(* observed: no step removes a record from the token cache before its       *)
(* expiry.                                                                  *)
C30_PurgeOnlyExpired ==
    [][\A k \in DOMAIN TOKEN_STORE :
           TOKEN_STORE[k].expires > now => Has(TOKEN_STORE', k)]_vars

\* The lookup read an expired record and deleted the unexpired one that
\* save_token had written in between.
C30_Witness ==
    /\ last.op = "get_cached_token"
    /\ last.seen # << >>
    /\ last.seen[1].expires <= last.at
    /\ last.deleted # << >>
    /\ last.deleted[1].expires > last.at
    /\ ~Has(TOKEN_STORE, last.key)

----------------------------------------------------------------------------
(* C27: the cache key derived from (bank_name, phone, account_id) is        *)
(* injective, phones and account ids that contain ':' included: a lookup    *)
(* for a tuple returns nothing, or the token that was stored for that very  *)
(* tuple.                                                                   *)
C27_TokenOnlyForItsTuple ==
    last.op = "get_cached_token" /\ "tuple" \in DOMAIN last
        => last.ret \in {NONE, TokenFor(last.tuple)}

\* A lookup returned the token of another tuple, whose key is the same
\* string.
C27_Witness ==
    /\ last.op = "get_cached_token"
    /\ "tuple" \in DOMAIN last
    /\ \E other \in TupleSet \ {last.tuple} :
           /\ last.ret = TokenFor(other)
           /\ KeyOf(other) = KeyOf(last.tuple)

----------------------------------------------------------------------------
(* C22: in every interleaving of concurrent requests, a lookup, store,      *)
(* open, verify or close performed for one (bank, phone, account) tuple     *)
(* leaves the token record and the pending challenge of every other tuple   *)
(* unchanged.                                                               *)
C22_OtherTuplesUntouched ==
    [][(last' # last /\ "tuple" \in DOMAIN last')
       => \A other \in TupleSet \ {last'.tuple} :
              /\ Stored(TOKEN_STORE', KeyOf(other)) = Stored(TOKEN_STORE, KeyOf(other))
              /\ Stored(PENDING_OTP', KeyOf(other)) = Stored(PENDING_OTP, KeyOf(other))]_vars

\* A challenge opened for one tuple is the pending challenge of another
\* tuple, for which none was opened: it names the first tuple's account.
C22_Witness ==
    /\ last.op = "request_otp_for_action"
    /\ "tuple" \in DOMAIN last
    /\ last.exc = NONE
    /\ \E other \in TupleSet \ {last.tuple} :
           /\ Has(PENDING_OTP, KeyOf(other))
           /\ PENDING_OTP[KeyOf(other)].account_id = last.tuple.account_id
           /\ other.account_id # last.tuple.account_id

----------------------------------------------------------------------------
\* What mask_account may show of the trimmed identifier a: nothing when a
\* has at most 8 characters, else its first 4 and last 4 around the marker.
MaskOf(a, m) ==
    IF Len(a) <= 8 THEN m = <<"*", "*", "*", "*">>
    ELSE /\ Len(m) = 11
         /\ \A i \in 1..4 : m[i] = a[i] /\ m[7 + i] = a[Len(a) - 4 + i]
         /\ \A i \in 5..7 : m[i] = "."

(* C23: mask_account returns "****" for every identifier of at most 8       *)
(* characters after trimming, and for a longer one its first 4 characters,  *)
(* the elision marker and its last 4 characters; sanitize_bank_response     *)
(* puts the account_number through it.                                      *)
C23_MaskShowsAtMostEight ==
    /\ last.op = "mask_account" => MaskOf(Strip(last.acc), last.ret)
    /\ last.op = "sanitize_bank_response"
           => MaskOf(Strip(last.raw.account_number), last.ret.account_label)

\* An identifier of exactly 9 characters, padded with blanks, went through
\* sanitize_bank_response.
C23_Witness ==
    /\ last.op = "sanitize_bank_response"
    /\ Len(last.raw.account_number) > 9
    /\ Len(Strip(last.raw.account_number)) = 9
    /\ Len(last.ret.account_label) = 11

----------------------------------------------------------------------------
\* min(a, b)
Min(a, b) == IF a < b THEN a ELSE b

(* C24: for every transaction list of length n the sanitized output has     *)
(* exactly min(n, 5) entries, the first min(n, 5) of the input in their     *)
(* order, and every merchant emitted has at most 30 characters.             *)
C24_FirstFiveCapped ==
    last.op = "summarize_transactions"
        => /\ Len(last.ret) = Min(Len(last.txs), 5)
           /\ \A i \in 1..Len(last.ret) :
                  /\ last.ret[i].amount = last.txs[i].amount
                  /\ last.ret[i].date = last.txs[i].date
                  /\ Len(last.ret[i].merchant) <= 30
                  /\ ("merchant" \in DOMAIN last.txs[i] /\ Len(last.txs[i].merchant) <= 30)
                         => last.ret[i].merchant = last.txs[i].merchant

\* A list of more than 5 transactions with a merchant of more than 30
\* characters among the first 5 was summarized.
C24_Witness ==
    /\ last.op = "summarize_transactions"
    /\ Len(last.txs) > 5
    /\ Len(last.ret) = 5
    /\ "merchant" \in DOMAIN last.txs[1]
    /\ Len(last.txs[1].merchant) > 30
    /\ Len(last.ret[1].merchant) = 30

----------------------------------------------------------------------------
\* l is a direct call of the summary tool that found a valid token and got
\* the account list from the gateway.
FetchedWithToken(l) ==
    /\ l.op = "get_account_summary"
    /\ \E i \in CallsTo(l, "get_cached_token") : l.calls[i].found = "valid"
    /\ \E i \in CallsTo(l, "get_accounts") : l.calls[i].resp.kind = "json"

FetchedList(l) == l.calls[CHOOSE i \in CallsTo(l, "get_accounts") : TRUE].resp.list

(* C25: with a valid token, get_account_summary returns the sanitized data  *)
(* of the requested account when the gateway's list has it, otherwise of    *)
(* the first account of the list, and of a zero-balance placeholder with    *)
(* the requested id when the list is empty; it raises nothing and opens no  *)
(* challenge.                                                               *)
C25_SummaryOfRequestedOrFirst ==
    FetchedWithToken(last)
        => LET list == FetchedList(last)
               at == {i \in 1..Len(list) : list[i].accountId = last.account_id}
           IN  /\ last.exc = NONE
               /\ CallsTo(last, "request_otp") = {}
               /\ at # {} =>
                      /\ last.ret.account_label = mask_account(last.account_id)
                      /\ \E i \in at : last.ret.balance = list[i].balance
               /\ (at = {} /\ list # << >>) =>
                      /\ last.ret.account_label = mask_account(list[1].accountId)
                      /\ last.ret.balance = list[1].balance
               /\ list = << >> =>
                      /\ last.ret.account_label = mask_account(last.account_id)
                      /\ last.ret.balance = 0
                      /\ last.ret.recent_transactions = << >>

\* An account the gateway does not list was asked for with a valid token:
\* the summary is the one of the first account listed.
C25_Witness ==
    /\ FetchedWithToken(last)
    /\ last.account_id = A3
    /\ FetchedList(last) # << >>
    /\ last.exc = NONE
    /\ last.ret.account_label = mask_account(A2)

----------------------------------------------------------------------------
\* The key a waiting-state entry names
WaitingKey(p) == _key(p.bank_name, p.phone, p.account_id)

(* C26: a token record for key k is written only by a verification step     *)
(* executed while a pending challenge for k is in the registry: whenever a  *)
(* step leaves a new or changed token record under k, a challenge for k     *)
(* was pending when the step began.                                         *)
C26_TokenOnlyWhileChallenged ==
    [][\A k \in DOMAIN TOKEN_STORE' :
           (~Has(TOKEN_STORE, k) \/ TOKEN_STORE[k] # TOKEN_STORE'[k])
               => Has(PENDING_OTP, k)]_vars

\* A user is still waiting on a key that has neither a pending challenge
\* nor a token: the code the gateway accepts next is stored with no
\* challenge in the registry.
C26_Witness ==
    \E u \in DOMAIN PENDING_ACTIONS :
        /\ ~Has(PENDING_OTP, WaitingKey(PENDING_ACTIONS[u]))
        /\ ~Has(TOKEN_STORE, WaitingKey(PENDING_ACTIONS[u]))
        /\ last.op = "handle_ask"
        /\ RejectedVerifies(last) # {}

----------------------------------------------------------------------------
(* C28: in every state between requests, whenever a user has a waiting-     *)
(* state entry, the registry holds a pending challenge for the (bank,       *)
(* phone, account) the entry names, also after failed verifications and     *)
(* when several users wait on the same key.                                 *)
C28_WaitingImpliesChallenge ==
    \A u \in DOMAIN PENDING_ACTIONS : Has(PENDING_OTP, WaitingKey(PENDING_ACTIONS[u]))

\* u1's code was accepted, which closed the challenge u2 is still waiting
\* on.
C28_Witness ==
    /\ last.op = "handle_ask"
    /\ last.req.user_id = "u1"
    /\ last.source = "otp_verified_resume"
    /\ Has(PENDING_ACTIONS, "u2")
    /\ ~Has(PENDING_OTP, WaitingKey(PENDING_ACTIONS["u2"]))

----------------------------------------------------------------------------
(* C29: a pending challenge leaves the registry once it is verified or      *)
(* superseded: in every state between requests each pending challenge is    *)
(* the one some user's waiting-state entry names, so a user challenged for  *)
(* k1 and then for k2 leaves no challenge for k1 behind.                    *)
C29_ChallengeImpliesWaiting ==
    \A k \in DOMAIN PENDING_OTP :
        \E u \in DOMAIN PENDING_ACTIONS : WaitingKey(PENDING_ACTIONS[u]) = k

\* The user was challenged for A1 and then for A2: both challenges are
\* pending and the waiting state names A2.
C29_Witness ==
    /\ Has(PENDING_OTP, _key(ApiBank, ApiPhone, A1))
    /\ Has(PENDING_OTP, _key(ApiBank, ApiPhone, A2))
    /\ Has(PENDING_ACTIONS, "u1")
    /\ PENDING_ACTIONS["u1"].account_id = A2

----------------------------------------------------------------------------
(* C31: the OTP-resume step verifies the code against the (phone,           *)
(* bank_name, account_id) of the user's waiting-state entry, whatever the   *)
(* OTP message itself carries; the message's bank only has to pass the      *)
(* supported-bank check, and an OTP message that does not pass it is        *)
(* rejected with no verification and the waiting state untouched.           *)
C31_VerifiesAgainstWaitingState ==
    [][(AskStep /\ NumericCode(last'.req.prompt) /\ Has(PENDING_ACTIONS, last'.req.user_id))
       => LET p == PENDING_ACTIONS[last'.req.user_id] IN
          IF PassedBankCheck(last')
          THEN p.account_id # NoAcct
                  => /\ CallsTo(last', "verify_otp") # {}
                     /\ \A i \in CallsTo(last', "verify_otp") :
                            /\ last'.calls[i].phone = p.phone
                            /\ last'.calls[i].bank = p.bank_name
                            /\ last'.calls[i].account_id = p.account_id
                            /\ last'.calls[i].otp = Strip(last'.req.prompt)
          ELSE /\ CallsTo(last', "verify_otp") = {}
               /\ PENDING_ACTIONS' = PENDING_ACTIONS
               /\ last'.exc = NONE => last'.source = "unsupported_bank"]_vars

\* An OTP message naming bank hdbank, account A2 and no phone was verified
\* against mock, demo:thao and A1.
C31_Witness ==
    /\ last.op = "handle_ask"
    /\ last.source = "otp_verified_resume"
    /\ last.req.bank_name = "hdbank"
    /\ last.req.account_id = A2
    /\ last.req.phone_num = NONE
    /\ \E i \in CallsTo(last, "verify_otp") :
           /\ last.calls[i].bank = ApiBank
           /\ last.calls[i].phone = ApiPhone
           /\ last.calls[i].account_id = A1

----------------------------------------------------------------------------
(* C32: a user's waiting-state entry is removed only by a successful OTP    *)
(* resume of that user and registered or replaced only by an                *)
(* authorization-required outcome of that user; every other message, of     *)
(* this user or another, leaves it unchanged, and so does the passing of    *)
(* time.                                                                    *)
C32_WaitingStateFrame ==
    [][\A u \in Users :
           Stored(PENDING_ACTIONS', u) # Stored(PENDING_ACTIONS, u)
               => /\ AskStep
                  /\ last'.req.user_id = u
                  /\ last'.source = IF Has(PENDING_ACTIONS', u) THEN "need_otp"
                                    ELSE "otp_verified_resume"]_vars

\* u1 is waiting for a code; since then time has passed and u2 has had
\* accounts listed.
C32_Witness ==
    /\ Has(PENDING_ACTIONS, "u1")
    /\ now > 0
    /\ last.op = "handle_ask"
    /\ last.req.user_id = "u2"
    /\ last.source = "AI_list_accounts_shortcut"

----------------------------------------------------------------------------
(* C33: of the messages that pass the bank check, a 5 or 6 digit numeric    *)
(* message of a user who has a waiting-state entry never reaches the        *)
(* planner, and neither does a message that contains the accounts keyword   *)
(* but not the balance keyword nor the transactions keyword.                *)
C33_ResumeThenShortcutThenPlanner ==
    [][AskStep /\ PassedBankCheck(last') =>
        LET req == last'.req
            text == Lower(req.prompt)
        IN  /\ NumericCode(req.prompt) /\ Has(PENDING_ACTIONS, req.user_id)
                   => CallsTo(last', "planner") = {}
            /\ (/\ Contains(text, KW_ACCOUNTS)
                /\ ~Contains(text, KW_BALANCE)
                /\ ~Contains(text, KW_TRANSACTIONS))
                   => CallsTo(last', "planner") = {}]_vars

\* An OTP message of the waiting user was refused without the planner, and
\* the user is still waiting.
C33_Witness ==
    /\ last.op = "handle_ask"
    /\ PassedBankCheck(last)
    /\ last.req.prompt = OTP5
    /\ last.source = "otp_failed"
    /\ Has(PENDING_ACTIONS, last.req.user_id)
    /\ CallsTo(last, "planner") = {}

----------------------------------------------------------------------------
(* C34: when the planner routes a request to the account summary, the       *)
(* account acted on is the request's account id if it has one, else the     *)
(* planner's, else the first account the gateway lists for the phone under  *)
(* the requested bank; every token lookup, every challenge and the          *)
(* waiting-state entry of that request use that account and the requested   *)
(* bank, and without such an account none of the three happens.             *)
C34_DispatchActsOnOneAccount ==
    [][(/\ AskStep
        /\ PassedBankCheck(last')
        /\ CallsTo(last', "planner") # {}
        /\ PlannerCall(last').resp.type = "function_call"
        /\ PlannerCall(last').resp.name = "get_account_summary") =>
        LET l == last'
            u == l.req.user_id
            acct == SummaryAccount(l)
            lookups == CallsTo(l, "get_cached_token")
            challenges == CallsTo(l, "request_otp")
        IN  /\ \A i \in CallsTo(l, "get_accounts_raw") :
                   /\ l.calls[i].bank = l.req.bank_name
                   /\ l.calls[i].phone = l.req.phone_num
            /\ \A i \in lookups : l.calls[i].key = SummaryKey(l)
            /\ \A i \in challenges : /\ l.calls[i].bank = l.req.bank_name
                                      /\ l.calls[i].account_id = acct
            /\ l.source = "need_otp" =>
                   /\ challenges # {}
                   /\ Has(PENDING_ACTIONS', u)
                   /\ PENDING_ACTIONS'[u].account_id = acct
                   /\ PENDING_ACTIONS'[u].bank_name = l.req.bank_name
            /\ l.source # "need_otp" => Stored(PENDING_ACTIONS', u) = Stored(PENDING_ACTIONS, u)
            /\ acct = NoAcct => lookups = {} /\ challenges = {}
            /\ acct # NoAcct => lookups # {}]_vars

\* A request at hdbank without an account id, for which the planner named no
\* account either, was challenged for the first account the gateway listed.
C34_Witness ==
    /\ last.op = "handle_ask"
    /\ last.source = "need_otp"
    /\ last.req.bank_name = "hdbank"
    /\ last.req.account_id = NoAcct
    /\ PlannerCall(last).resp.arguments.account_id = NoAcct
    /\ \E i \in CallsTo(last, "get_accounts_raw") :
           /\ last.calls[i].resp.kind = "json"
           /\ Len(last.calls[i].resp.list) = 2
           /\ last.calls[i].resp.list[1].accountId = A2
    /\ PENDING_ACTIONS["u1"].account_id = A2
    /\ PENDING_ACTIONS["u1"].bank_name = "hdbank"
    /\ Has(PENDING_OTP, _key("hdbank", ApiPhone, A2))

====
